---- MODULE Spec2Model ----
(***************************************************************************)
(* Model of the k8s based Cortx deployment orchestration of                *)
(* libs/prov/prov_k8s_cortx_deploy.py (class ProvDeployK8sCortxLib):       *)
(* test_deployment and the operations it calls (update_sol_yaml and its    *)
(* manifest edit passes, deploy_cortx_cluster, get_hctl_status,            *)
(* destroy_setup).                                                         *)
(***************************************************************************)
EXTENDS Integers, Sequences, FiniteSets, TLC

\* ------------------------------------------------------------------ bounds
\* Workers in worker_node_list.
MaxWorkers == 2
\* Block devices a worker lists (device 0 is the system disk).
MaxDev == 7
\* cvg_count values tried.
MaxCvg == 2
\* data_disk_per_cvg values tried (0 means "derive").
MaxDiskPerCvg == 3
\* Nodes in master_node_list.
MaxMasters == 2
\* Nodes of a status document, and services per node.
MaxStatusNodes == 2
MaxSvcs == 2
\* Seconds one status query may take (besides taking no time).
QueryTime == 45
\* The counters of status queries and sleeps stop counting here.
PollCap == 32
\* Seconds a status query takes on the slow cluster of the runs that try every
\* setting of the toggles.
SlowQueryTime == 900

\* Releases helm lists, and revisions in the history of a release.
MaxReleases == 2
MaxRev == 3

\* Pods a listing may hold and containers a pod may have.
MaxPods == 2

MaxContainers == 2

\* Nodes in CMN_CFG["nodes"].
MaxNodes == 2

\* ------------------------------------------------------- program constants
\* end_time = start_time + 1800
POLL_TIMEOUT == 1800
\* time.sleep(60)
POLL_SLEEP == 60
\* kwargs.get("cvg_count", 2) and the other defaults are passed explicitly by
\* test_deployment; the literals below are the messages of the source.
MSG_NKS == "The sum of data disks per cvg is less than N+K+S count"
MSG_MORE == "The requested data disk is more than the data disk available on the system"
MSG_STARTED == "Cluster is up and running."
MSG_NO_STATUS == "Cluster status is not retrieved."

VARIABLES
  \* ---- test_deployment: parameters, position, observable effects
  flags,              \* the six phase toggles (kwargs / PROV_CFG defaults)
  masters,            \* len(master_node_list)
  pc,                 \* position in test_deployment and its callees
  issued,             \* commands issued so far: command -> how many times
  idx,                \* index of the node a per-node loop is at
  resp,               \* the local resp: [ok, msg]
  abort_msg,          \* what the failed assertion / exception reports
  \* ---- convergence polling
  sol_file,           \* whether the local solution file is found by copy_sol_file
  latency,            \* durations a status query may take in this run
  now,                \* int(time.time())
  start_time,
  end_time,
  polls,              \* status queries made
  sleeps,             \* time.sleep(60) calls made
  first_ok,           \* "none" before the first response, then its status
  n_ok,               \* responses with every service started
  last_query,         \* time the previous status query was issued
  min_gap,            \* least time seen between two successive queries
  pod_name,           \* resp[1] of get_pod_name, the pod the status is queried on
  \* ---- get_hctl_status called on its own
  cluster_status,     \* the parsed status document
  \* ---- update_sol_yaml: parameters and locals
  conf,               \* worker device counts, cvg_count, durability, flags
  data_disk_per_cvg,  \* the local of that name (derived when given as 0)
  data_devices,       \* list of data-device slices
  metadata_devices,
  sys_disk_pernode,
  ret,                \* what update_sol_yaml returned
  manifest,           \* the solution.yaml document at filepath
  \* ---- pods_helper.LogicalNode: deployment deletion and recovery
  kube                \* the cluster side and the locals of the helper methods

vars == <<flags, masters, pc, issued, idx, resp, abort_msg, sol_file, latency, now,
          start_time, end_time, polls, sleeps, first_ok, n_ok, last_query,
          min_gap, pod_name, cluster_status, conf, data_disk_per_cvg, data_devices,
          metadata_devices, sys_disk_pernode, ret, manifest, kube>>

\* ------------------------------------------------------------ small helpers
Max0(x) == IF x < 0 THEN 0 ELSE x

Min(a, b) == IF a < b THEN a ELSE b

\* Python s[a:b] for 0 <= a, 0 <= b.
PySlice(s, a, b) == SubSeq(s, a + 1, Min(b, Len(s)))

\* The set of elements of a sequence.
Range(s) == {s[i] : i \in DOMAIN s}

\* A block device is named by its worker and its position in that worker's
\* device list: <<w, 0>> is worker w's system disk.
device_list(w, n) == [k \in 1..n |-> <<w, k - 1>>]

\* --------------------------------------------------------- issued commands
\* A command is <<name, kind, i>>: kind "m" is master_node_list[i-1], "w" is
\* worker_node_list[i-1], "c" the client the run executes on, "j" the job server.
Issued(c) == IF c \in DOMAIN issued THEN issued[c] ELSE 0

IssueIn(f, c) == IF c \in DOMAIN f THEN [f EXCEPT ![c] = @ + 1] ELSE f @@ (c :> 1)

RECURSIVE IssueAll(_, _)
IssueAll(f, cs) == IF cs = <<>> THEN f ELSE IssueAll(IssueIn(f, Head(cs)), Tail(cs))

Issue(cs) == issued' = IssueAll(issued, cs)

\* Commands of the given names issued so far, on any node.
IssuedNamed(names) == {c \in DOMAIN issued : c[1] \in names}

\* ------------------------------------------------------------ program order
\* The statements of test_deployment, and of the operations it calls, in the
\* order the source has them. A statement that completes hands over to the one
\* written after it; branches and loops name their targets.
\* The order with the password pass written before the partitioning loop.
ProgramOrderPasswordFirst ==
  <<"if_setup", "setup_k8s", "chk_taint", "taint",
    "if_deploy", "checkout",
    "usy_password", "usy_loop", "usy_image", "usy_cvg", "usy_nodes", "usy_ret",
    "dcc_check", "prereq_vm", "w_login", "w_git", "w_copy", "w_prereq",
    "pull", "m_login", "m_git", "m_copy", "deploy_cluster", "validate",
    "dcc_ret", "pod_name", "poll_start", "poll", "sleep", "poll_assert",
    "if_client", "get_ip", "haproxy", "post_deploy",
    "if_basic", "basic_io", "if_bench", "s3bench_setup", "s3bench",
    "if_destroy", "destroy_master", "umount", "rm", "destroy_ret",
    "ended">>

\* The order with the image pulls written after the cluster apply.
ProgramOrderApplyFirst ==
  <<"if_setup", "setup_k8s", "chk_taint", "taint",
    "if_deploy", "checkout",
    "usy_loop", "usy_password", "usy_image", "usy_cvg", "usy_nodes", "usy_ret",
    "dcc_check", "prereq_vm", "w_login", "w_git", "w_copy", "w_prereq",
    "m_login", "m_git", "m_copy", "deploy_cluster", "pull", "validate",
    "dcc_ret", "pod_name", "poll_start", "poll", "sleep", "poll_assert",
    "if_client", "get_ip", "haproxy", "post_deploy",
    "if_basic", "basic_io", "if_bench", "s3bench_setup", "s3bench",
    "if_destroy", "destroy_master", "umount", "rm", "destroy_ret",
    "ended">>

\* The order with the removal of the residual directories written before the
\* unmount.
ProgramOrderRemoveFirst ==
  <<"if_setup", "setup_k8s", "chk_taint", "taint",
    "if_deploy", "checkout",
    "usy_loop", "usy_password", "usy_image", "usy_cvg", "usy_nodes", "usy_ret",
    "dcc_check", "prereq_vm", "w_login", "w_git", "w_copy", "w_prereq",
    "pull", "m_login", "m_git", "m_copy", "deploy_cluster", "validate",
    "dcc_ret", "pod_name", "poll_start", "poll", "sleep", "poll_assert",
    "if_client", "get_ip", "haproxy", "post_deploy",
    "if_basic", "basic_io", "if_bench", "s3bench_setup", "s3bench",
    "if_destroy", "destroy_master", "rm", "umount", "destroy_ret",
    "ended">>

ProgramOrder ==
  <<"if_setup", "setup_k8s", "chk_taint", "taint",
    "if_deploy", "checkout",
    "usy_loop", "usy_password", "usy_image", "usy_cvg", "usy_nodes", "usy_ret",
    "dcc_check", "prereq_vm", "w_login", "w_git", "w_copy", "w_prereq",
    "pull", "m_login", "m_git", "m_copy", "deploy_cluster", "validate",
    "dcc_ret", "pod_name", "poll_start", "poll", "sleep", "poll_assert",
    "if_client", "get_ip", "haproxy", "post_deploy",
    "if_basic", "basic_io", "if_bench", "s3bench_setup", "s3bench",
    "if_destroy", "destroy_master", "umount", "rm", "destroy_ret",
    "ended">>

Pos(label) == CHOOSE i \in DOMAIN ProgramOrder : ProgramOrder[i] = label

\* The statement after label.
Succ(label) == ProgramOrder[Pos(label) + 1]

\* An assertion whose failure is swallowed.
assert_true_swallowed(ok, next) == next

\* assert_utils.assert_true(ok, msg): the run goes on only when ok holds.
assert_true(ok, next) == IF ok THEN next ELSE "aborted"

\* ------------------------------------------------ update_sol_yaml: inputs
\* (data, parity, spare) of the two redundancy domains.
SnsTriples == {<<1, 0, 0>>, <<2, 1, 0>>, <<2, 1, 1>>, <<4, 2, 1>>}

DixTriples == {<<1, 0, 0>>, <<4, 2, 2>>}

\* Device counts of the workers of one run.
WorkerLists == UNION {[1..k -> 1..MaxDev] : k \in 1..MaxWorkers}

\* Keys an images section, deploy_cfg['cortx_images_key'] or a third-party
\* image mapping may hold.
ImageKeys == {"cortxdata", "consul", "kafka"}

\* cortx_images_key and third_party_images of deploy_cfg, and the
\* third_party_images keyword, which defaults to the configured mapping.
DefaultImages ==
  [cortx_images_key |-> {"cortxdata"},
   third_party_images |-> [k \in {"consul", "kafka"} |-> "default"],
   third_party_images_dict |-> [k \in {"consul", "kafka"} |-> "default"]]

Confs == [workers : WorkerLists,
          cvg_count : 1..MaxCvg,
          data_disk_per_cvg : 0..MaxDiskPerCvg,
          sns : SnsTriples,
          dix : DixTriples,
          skip_disk_count_check : BOOLEAN,
          images : {DefaultImages}]

NoRet == [ok |-> FALSE, msg |-> "not returned"]

NoDoc == [null |-> TRUE, nodes |-> <<>>]

NoResp == [ok |-> FALSE, msg |-> "none"]

\* No deployment on the cluster; no file at the backup path.
NoDeployment == [storage |-> "none", uid |-> 0]

\* The helper methods of LogicalNode not in use.
NoKube == [deployment |-> NoDeployment, file |-> NoDeployment,
           before |-> NoDeployment, releases |-> <<>>, deploy |-> "none",
           backup_path |-> "none", result |-> [kind |-> "none"]]

NoFlags == [setup |-> FALSE, deploy |-> FALSE, client |-> FALSE,
            basic |-> FALSE, bench |-> FALSE, destroy |-> FALSE]

\* The solution.yaml template fetched by checkout_solution_file: its volume
\* groups, nodes and durability are placeholders the edit passes replace.
\* keys: the sections under 'solution' the document has.
Sections == {"secrets", "common", "images", "storage", "nodes"}

\* The entries of secrets.content the template has.
SecretKeys == {"kafka_admin_secret", "consul_admin_secret"}

Template ==
  [keys |-> Sections,
   passwords |-> FALSE,
   secrets |-> [k \in SecretKeys |-> "template"],
   storage_provisioner_path |-> "template",
   max_start_timeout |-> "template",
   images |-> [k \in ImageKeys |-> "template"],
   storage |-> <<[name |-> "cvg-01", type |-> "template",
                  metadata |-> <<0, 1>>, size_metadata |-> "template",
                  data |-> <<<<0, 2>>, <<0, 3>>>>,
                  size_data |-> <<"template", "template">>],
                 [name |-> "cvg-02", type |-> "template",
                  metadata |-> <<0, 4>>, size_metadata |-> "template",
                  data |-> <<<<0, 5>>, <<0, 6>>>>,
                  size_data |-> <<"template", "template">>]>>,
   sns |-> <<"1", "+", "0", "+", "0">>,
   dix |-> <<"1", "+", "0", "+", "0">>,
   glusterfs_size |-> "template",
   nodes |-> <<0>>]

\* The template as fetched, well-formed or with one section missing.
Templates ==
  {[Template EXCEPT !.keys = Sections \ m] : m \in {{}} \cup {{k} : k \in Sections}}

\* ------------------------------------------- update_sol_yaml: partitioning
\* The larger of the SNS and the DIX sums.
valid_disk_count_both(c) ==
  IF c.sns[3] + c.sns[1] + c.sns[2] > c.dix[3] + c.dix[1] + c.dix[2]
  THEN c.sns[3] + c.sns[1] + c.sns[2]
  ELSE c.dix[3] + c.dix[1] + c.dix[2]

\* valid_disk_count = sns_spare + sns_data + sns_parity
valid_disk_count(c) == c.sns[3] + c.sns[1] + c.sns[2]

\* if data_disk_per_cvg == 0: int(len(device_list[cvg_count + 1:]) / cvg_count)
DerivedDiskPerCvg(d, n, g) == IF d = 0 THEN Max0(n - g - 1) \div g ELSE d

\* The check with >= for >.
NksCheckFailsAtEqual(c, d) ==
  /\ ~c.skip_disk_count_check
  /\ valid_disk_count(c) >= d * c.cvg_count * Len(c.workers)

\* not skip_disk_count_check and
\*   valid_disk_count > data_disk_per_cvg * cvg_count * node_list
NksCheckFails(c, d) ==
  /\ ~c.skip_disk_count_check
  /\ valid_disk_count(c) > d * c.cvg_count * Len(c.workers)

\* The check rejecting every count that differs from d * g.
MoreCheckFailsUnequal(new_device_lst_len, d, g) == new_device_lst_len # d * g

\* new_device_lst_len < data_disk_per_cvg * cvg_count
MoreCheckFails(new_device_lst_len, d, g) == new_device_lst_len < d * g

\* The while loop of the branch taken when d * g < new_device_lst_len: the
\* slices appended after the first one.
RECURSIVE WhileCount(_, _, _, _, _, _)
WhileCount(count, count_end, acc, data_devices_f, d, new_device_lst_len) ==
  IF count = 0 THEN acc
  ELSE LET new_end == count_end + d
       IN IF new_end > new_device_lst_len THEN acc
          ELSE WhileCount(count - 1, new_end,
                          Append(acc, PySlice(data_devices_f, count_end, new_end)),
                          data_devices_f, d, new_device_lst_len)

\* data_devices.append(data_devices_f[0:count_end]) and the while loop.
AppendSlices(acc, data_devices_f, d, g, new_device_lst_len) ==
  WhileCount(g, d, Append(acc, PySlice(data_devices_f, 0, d)),
             data_devices_f, d, new_device_lst_len)

\* The slices taken at every index instead of every d-th.
ChunksStepOne(data_devices_f, d) ==
  [k \in 1..Len(data_devices_f) |-> PySlice(data_devices_f, k - 1, k - 1 + d)]

\* [data_devices_f[i:i + d] for i in range(0, len(data_devices_f), d)], d > 0
Chunks(data_devices_f, d) ==
  [k \in 1..((Len(data_devices_f) + d - 1) \div d) |->
     PySlice(data_devices_f, (k - 1) * d, k * d)]

\* One iteration of "for node_count, node_obj in enumerate(worker_obj)".
PartitionNode ==
  /\ pc = "usy_loop"
  /\ LET n == conf.workers[idx]
         g == conf.cvg_count
         dl == device_list(idx, n)
         new_device_lst_len == n - g - 1
         d == DerivedDiskPerCvg(data_disk_per_cvg, n, g)
         data_devices_f == PySlice(dl, g + 1, n)
         last == idx = Len(conf.workers)
     IN /\ Issue(<< <<"list_devices", "w", idx>> >>)
        /\ metadata_devices' = PySlice(dl, 1, g + 1)
        /\ data_disk_per_cvg' = d
        /\ IF NksCheckFails(conf, d)
           THEN /\ ret' = [ok |-> FALSE, msg |-> MSG_NKS]
                /\ pc' = "usy_ret"
                /\ UNCHANGED <<data_devices, sys_disk_pernode, idx, abort_msg>>
           ELSE IF MoreCheckFails(new_device_lst_len, d, g)
           THEN /\ ret' = [ok |-> FALSE, msg |-> MSG_MORE]
                /\ pc' = "usy_ret"
                /\ UNCHANGED <<data_devices, sys_disk_pernode, idx, abort_msg>>
           ELSE IF d * g < new_device_lst_len
           THEN /\ data_devices' =
                     AppendSlices(data_devices, data_devices_f, d, g, new_device_lst_len)
                /\ sys_disk_pernode' = (idx :> dl[1]) @@ sys_disk_pernode
                /\ pc' = IF last THEN Succ("usy_loop") ELSE "usy_loop"
                /\ idx' = IF last THEN idx ELSE idx + 1
                /\ UNCHANGED <<ret, abort_msg>>
           ELSE IF d = 0
           THEN \* range(0, 0, 0): ValueError, range() arg 3 must not be zero
                /\ pc' = "aborted"
                /\ abort_msg' = "ValueError"
                /\ UNCHANGED <<data_devices, sys_disk_pernode, idx, ret>>
           ELSE /\ data_devices' = Chunks(data_devices_f, d)
                /\ sys_disk_pernode' = (idx :> dl[1]) @@ sys_disk_pernode
                /\ pc' = IF last THEN Succ("usy_loop") ELSE "usy_loop"
                /\ idx' = IF last THEN idx ELSE idx + 1
                /\ UNCHANGED <<ret, abort_msg>>
  /\ UNCHANGED <<flags, masters, resp, sol_file, latency, now, start_time,
                 end_time, polls, sleeps, first_ok, n_ok, last_query, min_gap,
                 pod_name,
                 cluster_status, conf, manifest, kube>>

\* ------------------------------------------ update_sol_yaml: the edit passes
\* Every pass loads the document at filepath, edits it and writes it back.
Others == <<flags, masters, resp, sol_file, latency, now, start_time, end_time,
            polls, sleeps, first_ok, n_ok, last_query, min_gap, pod_name, cluster_status,
            kube>>

\* str(n) of a non-negative int, as its sequence of characters.
DigitChars == <<"0", "1", "2", "3", "4", "5", "6", "7", "8", "9">>

\* Only the last digit is kept.
DigitsLastOnly(n) == <<DigitChars[(n % 10) + 1]>>

RECURSIVE Digits(_)
Digits(n) ==
  IF n < 10 THEN <<DigitChars[n + 1]>>
  ELSE Digits(n \div 10) \o <<DigitChars[(n % 10) + 1]>>

\* "{}+{}+{}".format(data, parity, spare)
Durability(t) == Digits(t[1]) \o <<"+">> \o Digits(t[2]) \o <<"+">> \o Digits(t[3])

\* A pass that finds every section it looks up under conf['solution'].
HasKeysLenient(doc, ks) == TRUE

\* conf['solution'][k] for every k a pass looks up: KeyError when one is missing.
HasKeys(doc, ks) == ks \subseteq doc.keys

\* A pass raising KeyError while it reads: nothing is written.
KeyError ==
  /\ pc' = "aborted"
  /\ abort_msg' = "KeyError"
  /\ UNCHANGED <<manifest, ret>>

UsyLocals == <<issued, idx, conf, data_disk_per_cvg, data_devices,
               metadata_devices, sys_disk_pernode>>

\* d.update(e) of Python dicts: e's entries win.
update(d, e) == e @@ d

\* passwd_dict: every key of deploy_cfg['password'] with its decrypted value.
passwd_dict == [k \in {"kafka_admin_secret", "csm_mgmt_admin_secret"} |-> "decrypted"]

\* The secrets made of the configured passwords alone.
SecretsReplaced(content) == passwd_dict

\* content.update(passwd_dict)
SecretsContent(content) == update(content, passwd_dict)

UpdatePasswordSolFile ==
  /\ pc = "usy_password"
  /\ IF HasKeys(manifest, {"secrets", "common"})
     THEN /\ manifest' = [manifest EXCEPT
                            !.passwords = TRUE,
                            !.secrets = SecretsContent(manifest.secrets),
                            !.storage_provisioner_path = "local_path_prov",
                            !.max_start_timeout = "s3_max_start_timeout"]
          /\ pc' = Succ("usy_password")
          /\ UNCHANGED <<abort_msg, ret>>
     ELSE KeyError
  /\ UNCHANGED UsyLocals
  /\ UNCHANGED Others

\* cortx_im: every configured product-image key gets cortx_image.
cortx_im(cfg) == [k \in cfg.cortx_images_key |-> "cortx_image"]

\* The injected entries whose key is a configured third-party key.
Overrides(cfg) ==
  [k \in DOMAIN cfg.third_party_images_dict \cap DOMAIN cfg.third_party_images |->
     cfg.third_party_images_dict[k]]

\* image_default_dict after the pops: the defaults that were not overridden.
image_default_dict(cfg) ==
  [k \in DOMAIN cfg.third_party_images \ DOMAIN cfg.third_party_images_dict |->
     cfg.third_party_images[k]]

\* Every injected entry written, configured or not.
ImagesSectionAllInjected(image, cfg) ==
  update(update(update(image, cortx_im(cfg)), cfg.third_party_images_dict),
         image_default_dict(cfg))

\* The images section after the three updates.
ImagesSection(image, cfg) ==
  update(update(update(image, cortx_im(cfg)), Overrides(cfg)),
         image_default_dict(cfg))

UpdateImageSectionSolFile ==
  /\ pc = "usy_image"
  /\ IF HasKeys(manifest, {"images"})
     THEN /\ manifest' = [manifest EXCEPT
                            !.images = ImagesSection(manifest.images, conf.images)]
          /\ pc' = Succ("usy_image")
          /\ UNCHANGED <<abort_msg, ret>>
     ELSE KeyError
  /\ UNCHANGED UsyLocals
  /\ UNCHANGED Others

\* metadata_devices[cvg] and data_devices[cvg][disk] exist for every cvg and
\* disk the loops of update_cvg_sol_file index.
CvgIndexOk(md, dd, g, d) ==
  /\ Len(md) >= g
  /\ d > 0 => Len(dd) >= g
  /\ \A cvg \in 1..g : d > 0 => Len(dd[cvg]) >= d

\* size_metadata and size_data_disk as update_sol_yaml passes them on.
size_metadata == "20Gi"

size_data_disk == "20Gi"

\* The groups update_cvg_sol_file builds: cvg1 .. cvg{cvg_count}; the key
\* cvg{n} of a group is its index n in the section, d{k} the index k in data.
CvgStorage(md, dd, g, d, cvg_type) ==
  [cvg \in 1..g |->
     [name |-> "cvg-0" \o ToString(cvg),
      type |-> cvg_type,
      metadata |-> md[cvg],
      size_metadata |-> size_metadata,
      data |-> [disk \in 1..d |-> dd[cvg][disk]],
      size_data |-> [disk \in 1..d |-> size_data_disk]]]

\* The template's groups left in place.
StorageKept(storage) == storage

\* for cvg_item in list(total_cvg): storage.pop(cvg_item)
StoragePopped(storage) == <<>>

\* storage.update(cvg_key) for every group built: a key that exists is
\* replaced, the others stay.
StorageUpdated(storage, groups) ==
  [cvg \in 1..(IF Len(storage) > Len(groups) THEN Len(storage) ELSE Len(groups)) |->
     IF cvg <= Len(groups) THEN groups[cvg] ELSE storage[cvg]]

UpdateCvgSolFile ==
  /\ pc = "usy_cvg"
  /\ IF ~HasKeys(manifest, {"common", "storage"})
     THEN KeyError
     ELSE IF CvgIndexOk(metadata_devices, data_devices, conf.cvg_count, data_disk_per_cvg)
     THEN /\ manifest' =
               [manifest EXCEPT
                  !.glusterfs_size = "20Gi",
                  !.sns = Durability(conf.sns),
                  !.dix = Durability(conf.dix),
                  !.storage =
                     StorageUpdated(StoragePopped(manifest.storage),
                                    CvgStorage(metadata_devices, data_devices,
                                               conf.cvg_count, data_disk_per_cvg,
                                               "ios"))]
          /\ pc' = Succ("usy_cvg")
          /\ UNCHANGED <<abort_msg, ret>>
     ELSE \* IndexError: list index out of range
          /\ pc' = "aborted"
          /\ abort_msg' = "IndexError"
          /\ UNCHANGED <<manifest, ret>>
  /\ UNCHANGED UsyLocals
  /\ UNCHANGED Others

\* The node list written from a stale copy of the document.
UpdateNodesSolFileStale ==
  /\ pc = "usy_nodes"
  /\ manifest' = [Template EXCEPT !.nodes = [w \in 1..Len(conf.workers) |-> w]]
  /\ ret' = [ok |-> TRUE, msg |-> "filepath"]
  /\ pc' = Succ("usy_nodes")
  /\ UNCHANGED abort_msg
  /\ UNCHANGED UsyLocals
  /\ UNCHANGED Others

\* The last pass; update_sol_yaml then returns True, filepath, sys_disk_pernode.
UpdateNodesSolFile ==
  /\ pc = "usy_nodes"
  /\ IF HasKeys(manifest, {"nodes"})
     THEN /\ manifest' = [manifest EXCEPT
                            !.nodes = [w \in 1..Len(conf.workers) |-> w]]
          /\ ret' = [ok |-> TRUE, msg |-> "filepath"]
          /\ pc' = Succ("usy_nodes")
          /\ UNCHANGED abort_msg
     ELSE KeyError
  /\ UNCHANGED UsyLocals
  /\ UNCHANGED Others

\* ------------------------------------------------------------ test_deployment
Params == <<flags, masters, sol_file, latency, conf, cluster_status, kube>>

PollVars == <<now, start_time, end_time, polls, sleeps, first_ok, n_ok,
              last_query, min_gap, pod_name>>

UsyVars == <<data_disk_per_cvg, data_devices, metadata_devices,
             sys_disk_pernode, ret>>

Workers == Len(conf.workers)

\* A statement that issues remote commands and either completes or raises;
\* nothing in test_deployment catches what it raises.
Command(label, cmds, next) ==
  /\ pc = label
  /\ Issue(cmds)
  /\ \/ /\ pc' = next
        /\ UNCHANGED abort_msg
     \/ /\ pc' = "aborted"
        /\ abort_msg' = "raised"
  /\ UNCHANGED <<idx, resp, manifest>>
  /\ UNCHANGED <<Params, PollVars, UsyVars>>

\* The last statement of the body of a loop over n nodes: the loop goes back
\* for the next node or hands over to the statement after it.
LoopCommand(label, cmds, n, back, next) ==
  /\ pc = label
  /\ Issue(cmds)
  /\ \/ /\ pc' = IF idx < n THEN back ELSE next
        /\ idx' = IF idx < n THEN idx + 1 ELSE 1
        /\ UNCHANGED abort_msg
     \/ /\ pc' = "aborted"
        /\ abort_msg' = "raised"
        /\ UNCHANGED idx
  /\ UNCHANGED <<resp, manifest>>
  /\ UNCHANGED <<Params, PollVars, UsyVars>>

\* A phase entered whatever its toggle.
GateIgnored(label, flag, skip_to) ==
  /\ pc = label
  /\ pc' = Succ(label)
  /\ UNCHANGED <<issued, idx, resp, abort_msg, manifest>>
  /\ UNCHANGED <<Params, PollVars, UsyVars>>

\* "if <flag>:" - the phase is entered or skipped.
Gate(label, flag, skip_to) ==
  /\ pc = label
  /\ pc' = IF flag THEN Succ(label) ELSE skip_to
  /\ UNCHANGED <<issued, idx, resp, abort_msg, manifest>>
  /\ UNCHANGED <<Params, PollVars, UsyVars>>

\* ---- cluster-setup phase
IfSetup == Gate("if_setup", flags.setup, "if_deploy")

\* setup_k8s_cluster and the assertion on its result.
SetupK8sCluster ==
  /\ pc = "setup_k8s"
  /\ IF masters = 0
     THEN /\ resp' = [ok |-> FALSE, msg |-> "Master Node List is empty"]
          /\ pc' = assert_true(FALSE, Succ("setup_k8s"))
          /\ abort_msg' = "Master Node List is empty"
          /\ UNCHANGED issued
     ELSE /\ Issue(<< <<"build_job", "j", 0>> >>)
          /\ \E result \in {"SUCCESS", "FAILURE"} :
               /\ resp' = [ok |-> result = "SUCCESS", msg |-> result]
               /\ pc' = assert_true(result = "SUCCESS", Succ("setup_k8s"))
               /\ abort_msg' = IF result = "SUCCESS" THEN abort_msg ELSE result
  /\ idx' = 1
  /\ UNCHANGED manifest
  /\ UNCHANGED <<Params, PollVars, UsyVars>>

\* What the taint query of a node may print.
TaintOutputs == {"node-role.kubernetes.io/master:NoSchedule", "<none>"}

\* validate_master_tainted: "NoSchedule" in resp
validate_master_tainted(out) == out = "node-role.kubernetes.io/master:NoSchedule"

\* The taint applied whatever the check found.
TaintAlways(tainted) == TRUE

\* if not resp: self.taint_master(node)
TaintNeeded(tainted) == ~tainted

\* resp = self.validate_master_tainted(node): the taint command follows only
\* when the node is found untainted.
ValidateMasterTainted ==
  /\ pc = "chk_taint"
  /\ Issue(<< <<"chk_taint", "m", idx>> >>)
  /\ \/ \E out \in TaintOutputs :
          LET tainted == validate_master_tainted(out)
          IN /\ resp' = [ok |-> tainted, msg |-> out]
             /\ pc' = IF TaintNeeded(tainted) THEN Succ("chk_taint")
                      ELSE IF idx < masters THEN "chk_taint" ELSE Succ("taint")
             /\ idx' = IF ~TaintNeeded(tainted) /\ idx < masters THEN idx + 1 ELSE idx
             /\ UNCHANGED abort_msg
     \/ /\ pc' = "aborted"
        /\ abort_msg' = "raised"
        /\ UNCHANGED <<idx, resp>>
  /\ UNCHANGED manifest
  /\ UNCHANGED <<Params, PollVars, UsyVars>>

TaintMaster ==
  LoopCommand("taint", << <<"taint", "m", idx>> >>, masters, "chk_taint", Succ("taint"))

\* ---- cortx-deploy phase
IfDeploy == Gate("if_deploy", flags.deploy, "if_client")

\* checkout_solution_file: the template is fetched to the local path.
CheckoutSolutionFile ==
  /\ pc = "checkout"
  /\ Issue(<< <<"curl_template", "c", 0>> >>)
  /\ manifest' \in Templates
  /\ pc' = Succ("checkout")
  /\ idx' = 1
  /\ UNCHANGED <<resp, abort_msg>>
  /\ UNCHANGED <<Params, PollVars, UsyVars>>

\* assert_utils.assert_true(resp[0], "Failure updating solution.yaml")
AssertUpdate ==
  /\ pc = "usy_ret"
  /\ pc' = assert_true(ret.ok, Succ("usy_ret"))
  /\ abort_msg' = IF ret.ok THEN abort_msg ELSE "Failure updating solution.yaml"
  /\ resp' = ret
  /\ UNCHANGED <<issued, idx, manifest>>
  /\ UNCHANGED <<Params, PollVars, UsyVars>>

\* deploy_cortx_cluster: the two length checks.
DccCheck ==
  /\ pc = "dcc_check"
  /\ IF masters = 0
     THEN /\ resp' = [ok |-> FALSE,
                      msg |-> "Minimum one master node needed for deployment"]
          /\ pc' = "dcc_ret"
     ELSE /\ pc' = Succ("dcc_check")
          /\ UNCHANGED resp
  /\ idx' = 1
  /\ UNCHANGED <<issued, abort_msg, manifest>>
  /\ UNCHANGED <<Params, PollVars, UsyVars>>

\* What the four commands of prereq_vm find on a node, against
\* deploy_cfg["prereq"]: too few CPUs, too few disks, OS release listed,
\* kernel version listed.
NodeFacts == [cpu_short : BOOLEAN, disks_short : BOOLEAN,
              os_listed : BOOLEAN, kernel_listed : BOOLEAN]

\* prereq_vm: the first check that fails decides what is returned.
prereq_vm(f) ==
  IF f.cpu_short
  THEN [ok |-> FALSE, msg |-> "No of CPU are not as expected."]
  ELSE IF f.disks_short
  THEN [ok |-> FALSE, msg |-> "Need at least min_disks disks for deployment"]
  ELSE IF ~f.os_listed
  THEN [ok |-> FALSE, msg |-> "OS version is different than expected."]
  ELSE IF ~f.kernel_listed
  THEN [ok |-> FALSE, msg |-> "Kernel Version is different than expected."]
  ELSE [ok |-> TRUE, msg |-> "Prerequisite VM check successful"]

PrereqResults == {prereq_vm(f) : f \in NodeFacts}

\* prereq_vm(node) with its result not asserted.
PrereqVmUnasserted ==
  /\ pc = "prereq_vm"
  /\ Issue(<< <<"prereq_vm", "w", idx>> >>)
  /\ \/ \E r \in PrereqResults :
          /\ resp' = r
          /\ pc' = Succ("prereq_vm")
          /\ abort_msg' = IF r.ok THEN abort_msg ELSE r.msg
     \/ /\ pc' = "aborted"
        /\ abort_msg' = "raised"
        /\ UNCHANGED resp
  /\ UNCHANGED <<idx, manifest>>
  /\ UNCHANGED <<Params, PollVars, UsyVars>>

\* prereq_vm(node) and the assertion on its result.
PrereqVm ==
  /\ pc = "prereq_vm"
  /\ Issue(<< <<"prereq_vm", "w", idx>> >>)
  /\ \/ \E r \in PrereqResults :
          /\ resp' = r
          /\ pc' = assert_true(r.ok, Succ("prereq_vm"))
          /\ abort_msg' = IF r.ok THEN abort_msg ELSE r.msg
     \/ /\ pc' = "aborted"
        /\ abort_msg' = "raised"
        /\ UNCHANGED resp
  /\ UNCHANGED <<idx, manifest>>
  /\ UNCHANGED <<Params, PollVars, UsyVars>>

WorkerDockerLogin ==
  Command("w_login", << <<"docker_login", "w", idx>> >>, Succ("w_login"))

WorkerPrereqGit ==
  Command("w_git", << <<"git_checkout", "w", idx>> >>, Succ("w_git"))

\* copy_sol_file: copies when the local file exists, else returns False; the
\* caller does not look at what it returns.
WorkerCopySolFile ==
  Command("w_copy",
          IF sol_file THEN << <<"copy_sol_file", "w", idx>> >> ELSE <<>>,
          Succ("w_copy"))

\* The system disk handed to every worker is the first worker's.
system_disk_first(system_disk_dict, node) == system_disk_dict[1]

\* system_disk = system_disk_dict[node.hostname]
system_disk(system_disk_dict, node) == system_disk_dict[node]

\* execute_prereq_cortx(node, git_remote_dir, system_disk)
ExecutePrereqCortx ==
  LoopCommand("w_prereq",
              << <<"prereq_script", "w", idx, system_disk(sys_disk_pernode, idx)>> >>,
              Workers, "prereq_vm", Succ("w_prereq"))

\* pull_third_party_images: the product image and every third-party image,
\* worker after worker.
PullThirdPartyImages ==
  LoopCommand("pull", << <<"docker_pull", "w", idx>> >>, Workers,
              "pull", Succ("pull"))

MasterDockerLogin ==
  Command("m_login", << <<"docker_login", "m", 1>> >>, Succ("m_login"))

MasterPrereqGit ==
  Command("m_git", << <<"git_checkout", "m", 1>> >>, Succ("m_git"))

MasterCopySolFile ==
  Command("m_copy",
          IF sol_file THEN << <<"copy_sol_file", "m", 1>> >> ELSE <<>>,
          Succ("m_copy"))

\* deploy_cluster: runs the deploy script; returns True, resp.
DeployCluster ==
  Command("deploy_cluster", << <<"deploy_cluster", "m", 1>> >>, Succ("deploy_cluster"))

\* The text the status script may print.
StatusOutputs ==
  {"Pod status: PASSED\n",
   "Pod status: PASSED\nPod status: FAILED\n",
   "FAILED\n",
   "Pod status: PASSED\nFAILED"}

\* execute_cmd(cmd, read_lines=True): the output as a list of lines, each
\* with the line break it was read with.
read_lines(text) ==
  CASE text = "Pod status: PASSED\n" -> <<"Pod status: PASSED\n">>
    [] text = "Pod status: PASSED\nPod status: FAILED\n" ->
         <<"Pod status: PASSED\n", "Pod status: FAILED\n">>
    [] text = "FAILED\n" -> <<"FAILED\n">>
    [] text = "Pod status: PASSED\nFAILED" -> <<"Pod status: PASSED\n", "FAILED">>

\* "FAILED" in resp: membership in a list, an element equal to "FAILED".
FailedInList(lines) == \E i \in DOMAIN lines : lines[i] = "FAILED"

\* validate_cluster_status: False, resp when "FAILED" in resp; else True, resp.
ValidateClusterStatus ==
  /\ pc = "validate"
  /\ Issue(<< <<"cluster_status", "m", 1>> >>)
  /\ \/ \E output \in StatusOutputs :
          /\ resp' = [ok |-> ~FailedInList(read_lines(output)), msg |-> output]
          /\ pc' = Succ("validate")
          /\ UNCHANGED abort_msg
     \/ /\ pc' = "aborted"
        /\ abort_msg' = "raised"
        /\ UNCHANGED resp
  /\ UNCHANGED <<idx, manifest>>
  /\ UNCHANGED <<Params, PollVars, UsyVars>>

\* deploy_cortx_cluster returns resp; assert_utils.assert_true(resp[0], resp[1])
AssertDeploy ==
  /\ pc = "dcc_ret"
  /\ pc' = assert_true(resp.ok, Succ("dcc_ret"))
  /\ abort_msg' = IF resp.ok THEN abort_msg ELSE resp.msg
  /\ UNCHANGED <<issued, idx, resp, manifest>>
  /\ UNCHANGED <<Params, PollVars, UsyVars>>

\* ---- get_hctl_status
SvcName(i, j) == "svc" \o ToString(i) \o "_" \o ToString(j)

Statuses == {"started", "offline"}

SvcStatusLists == UNION {[1..k -> Statuses] : k \in 0..MaxSvcs}

StatusShapes == UNION {[1..m -> SvcStatusLists] : m \in 0..MaxStatusNodes}

\* The parsed output of the status command: nodes[].svcs[].{name, status}.
DocOf(sh) ==
  [null |-> FALSE,
   nodes |-> [i \in DOMAIN sh |->
                [j \in DOMAIN sh[i] |->
                   [name |-> SvcName(i, j), status |-> sh[i][j]]]]]

StatusDocs == {DocOf(sh) : sh \in StatusShapes} \cup {NoDoc}

\* The scan that keeps the last service that is not started.
RECURSIVE ScanServicesLast(_)
ScanServicesLast(services) ==
  IF services = <<>> THEN ""
  ELSE LET rest == ScanServicesLast(Tail(services))
       IN IF rest # "" THEN rest
          ELSE IF Head(services).status # "started" THEN Head(services).name
          ELSE ""

\* for svc in services: if svc["status"] != "started": return ...
\* The name of the first service that is not started, "" when there is none.
RECURSIVE ScanServices(_)
ScanServices(services) ==
  IF services = <<>> THEN ""
  ELSE IF Head(services).status # "started" THEN Head(services).name
  ELSE ScanServices(Tail(services))

\* for node_data in nodes_data: ...
RECURSIVE ScanNodes(_)
ScanNodes(nodes_data) ==
  IF nodes_data = <<>> THEN ""
  ELSE LET found == ScanServices(Head(nodes_data))
       IN IF found # "" THEN found ELSE ScanNodes(Tail(nodes_data))

NotStartedMsg(name) == "Service " \o name \o " not started."

get_hctl_status(doc) ==
  IF doc.null THEN [ok |-> FALSE, msg |-> MSG_NO_STATUS]
  ELSE LET found == ScanNodes(doc.nodes)
       IN IF found = "" THEN [ok |-> TRUE, msg |-> MSG_STARTED]
          ELSE [ok |-> FALSE, msg |-> NotStartedMsg(found)]

\* What get_hctl_status may return on the status documents.
HctlResponses == {get_hctl_status(doc) : doc \in StatusDocs}

\* get_hctl_status called on a status document, outside a deployment run.
GetHctlStatus ==
  /\ pc = "hctl"
  /\ Issue(<< <<"hctl_status", "m", 1>> >>)
  /\ resp' = get_hctl_status(cluster_status)
  /\ pc' = "hctl_ret"
  /\ UNCHANGED <<idx, abort_msg, manifest>>
  /\ UNCHANGED <<Params, PollVars, UsyVars>>

\* ---- convergence polling
\* The names get_pod_name may find with the prefix of the data pods.
PodNames == {"cortx-data-pod-1"}

\* get_pod_name: True and the first listed name that holds the prefix, or
\* False and a message.
PodNameResults ==
  {[ok |-> TRUE, msg |-> n] : n \in PodNames}
    \cup {[ok |-> FALSE, msg |-> "pod with prefix not found"]}

\* pod_name = resp[1], whatever resp[0] is.
AfterPodName(ok) == Succ("pod_name")

\* resp = master_node_list[0].get_pod_name(...); pod_name = resp[1]
GetPodName ==
  /\ pc = "pod_name"
  /\ Issue(<< <<"get_pod_name", "m", 1>> >>)
  /\ \/ \E r \in PodNameResults :
          /\ resp' = r
          /\ pod_name' = r.msg
          /\ pc' = AfterPodName(r.ok)
          /\ UNCHANGED abort_msg
     \/ /\ pc' = "aborted"
        /\ abort_msg' = "raised"
        /\ UNCHANGED <<resp, pod_name>>
  /\ UNCHANGED <<now, start_time, end_time, polls, sleeps, first_ok, n_ok,
                 last_query, min_gap>>
  /\ UNCHANGED <<idx, manifest>>
  /\ UNCHANGED <<Params, UsyVars>>

\* start_time = int(time.time()); end_time = start_time + 1800
PollStart ==
  /\ pc = "poll_start"
  /\ start_time' = now
  /\ end_time' = now + POLL_TIMEOUT
  /\ pc' = Succ("poll_start")
  /\ UNCHANGED <<now, polls, sleeps, first_ok, n_ok, last_query, min_gap, pod_name>>
  /\ UNCHANGED <<issued, idx, resp, abort_msg, manifest>>
  /\ UNCHANGED <<Params, UsyVars>>

\* The loop condition with <= for <.
LoopContinuesAtDeadline(t, deadline) == t <= deadline

\* while int(time.time()) < end_time
LoopContinues(t, deadline) == t < deadline

\* The loop without its break.
AfterStatusNoBreak(ok) == Succ("poll")

\* if resp[0]: break - else on to time.sleep(60)
AfterStatus(ok) == IF ok THEN "poll_assert" ELSE Succ("poll")

Count(n) == IF n < PollCap THEN n + 1 ELSE n

\* One test of the loop condition and, when it holds, one status query.
Poll ==
  /\ pc = "poll"
  /\ IF LoopContinues(now, end_time)
     THEN /\ Issue(<< <<"hctl_status", "m", 1>> >>)
          /\ \/ \E r \in HctlResponses, dur \in latency :
                  /\ resp' = r
                  /\ now' = now + dur
                  /\ polls' = Count(polls)
                  /\ first_ok' = IF first_ok # "none" THEN first_ok
                                 ELSE IF r.ok THEN "yes" ELSE "no"
                  /\ n_ok' = IF r.ok THEN 1 ELSE n_ok
                  /\ last_query' = now
                  /\ min_gap' = IF polls = 0 THEN min_gap
                                ELSE Min(min_gap, now - last_query)
                  /\ pc' = AfterStatus(r.ok)
                  /\ UNCHANGED abort_msg
             \/ /\ pc' = "aborted"
                /\ abort_msg' = "raised"
                /\ UNCHANGED <<resp, now, polls, first_ok, n_ok, last_query, min_gap>>
     ELSE /\ pc' = "poll_assert"
          /\ UNCHANGED <<issued, resp, abort_msg, now, polls, first_ok, n_ok,
                         last_query, min_gap>>
  /\ UNCHANGED <<start_time, end_time, sleeps, pod_name, idx, manifest>>
  /\ UNCHANGED <<Params, UsyVars>>

\* time.sleep(60)
Sleep ==
  /\ pc = "sleep"
  /\ now' = now + POLL_SLEEP
  /\ sleeps' = Count(sleeps)
  /\ pc' = "poll"
  /\ UNCHANGED <<start_time, end_time, polls, first_ok, n_ok, last_query, min_gap, pod_name>>
  /\ UNCHANGED <<issued, idx, resp, abort_msg, manifest>>
  /\ UNCHANGED <<Params, UsyVars>>

\* assert_utils.assert_true(resp[0], resp[1]) after the loop
AssertPoll ==
  /\ pc = "poll_assert"
  /\ pc' = assert_true(resp.ok, Succ("poll_assert"))
  /\ abort_msg' = IF resp.ok THEN abort_msg ELSE resp.msg
  /\ UNCHANGED <<issued, idx, resp, manifest>>
  /\ UNCHANGED <<Params, PollVars, UsyVars>>

\* ---- client-config phase, with the two IO phases inside it
IfClient == Gate("if_client", flags.client, "if_destroy")

GetIpIface == Command("get_ip", << <<"get_ip_iface", "c", 0>> >>, Succ("get_ip"))

\* configure_haproxy_lb(master_node_list[0].hostname, ...)
ConfigureHaproxy ==
  /\ pc = "haproxy"
  /\ IF masters = 0
     THEN /\ pc' = "aborted"
          /\ abort_msg' = "IndexError"
          /\ UNCHANGED issued
     ELSE /\ Issue(<< <<"configure_haproxy", "c", 0>> >>)
          /\ \/ /\ pc' = Succ("haproxy")
                /\ UNCHANGED abort_msg
             \/ /\ pc' = "aborted"
                /\ abort_msg' = "raised"
  /\ UNCHANGED <<idx, resp, manifest>>
  /\ UNCHANGED <<Params, PollVars, UsyVars>>

\* post_deployment_steps_lc and the assertion on its result.
PostDeploymentSteps ==
  /\ pc = "post_deploy"
  /\ Issue(<< <<"create_s3_account", "c", 0>> >>)
  /\ \/ \E ok \in BOOLEAN :
          /\ resp' = [ok |-> ok,
                      msg |-> IF ok THEN "Post Deployment Steps Successful!!"
                              ELSE "IOError"]
          /\ pc' = assert_true(ok, Succ("post_deploy"))
          /\ abort_msg' = IF ok THEN abort_msg ELSE "IOError"
     \/ /\ pc' = "aborted"
        /\ abort_msg' = "raised"
        /\ UNCHANGED resp
  /\ UNCHANGED <<idx, manifest>>
  /\ UNCHANGED <<Params, PollVars, UsyVars>>

IfBasic == Gate("if_basic", flags.basic, "if_bench")

\* What basic_io_write_read_validate and write_read_validate_file assert, in
\* order: bucket creation, local checksum, upload, listing, download, checksum
\* after download and its equality, object delete, local delete, bucket delete.
BasicIoChecks == {"create_bucket", "checksum", "put_object", "object_list",
                  "object_download", "checksum_mismatch", "delete_object",
                  "remove_file", "delete_bucket"}

\* basic_io_write_read_validate: the first assertion that fails ends the run.
BasicIo ==
  /\ pc = "basic_io"
  /\ Issue(<< <<"basic_io", "c", 0>> >>)
  /\ \/ /\ resp' = [ok |-> TRUE, msg |-> "Basic IO Completed"]
        /\ pc' = Succ("basic_io")
        /\ UNCHANGED abort_msg
     \/ \E failed \in BasicIoChecks :
          /\ resp' = [ok |-> FALSE, msg |-> failed]
          /\ pc' = assert_true(FALSE, Succ("basic_io"))
          /\ abort_msg' = failed
     \/ /\ pc' = "aborted"
        /\ abort_msg' = "raised"
        /\ UNCHANGED resp
  /\ UNCHANGED <<idx, manifest>>
  /\ UNCHANGED <<Params, PollVars, UsyVars>>

IfBench == Gate("if_bench", flags.bench, "if_destroy")

\* assert (resp, resp), "Could not setup s3bench." - the asserted expression is
\* a tuple of two elements, which is true whatever resp is.
assert_tuple(ok) == TRUE

\* io_workload: resp = s3bench.setup_s3bench() and the assertion after it.
SetupS3bench ==
  /\ pc = "s3bench_setup"
  /\ Issue(<< <<"setup_s3bench", "c", 0>> >>)
  /\ \/ \E ok \in BOOLEAN :
          /\ resp' = [ok |-> ok, msg |-> "setup_s3bench"]
          /\ pc' = assert_true(assert_tuple(ok), Succ("s3bench_setup"))
          /\ abort_msg' = IF assert_tuple(ok) THEN abort_msg
                          ELSE "Could not setup s3bench."
     \/ /\ pc' = "aborted"
        /\ abort_msg' = "raised"
        /\ UNCHANGED resp
  /\ UNCHANGED <<idx, manifest>>
  /\ UNCHANGED <<Params, PollVars, UsyVars>>

\* io_workload: the workloads; assert not s3bench.check_log_file_error(resp[1])
IoWorkload ==
  /\ pc = "s3bench"
  /\ Issue(<< <<"s3bench", "c", 0>> >>)
  /\ \/ \E log_error \in BOOLEAN :
          /\ resp' = [ok |-> ~log_error, msg |-> "s3bench log"]
          /\ pc' = assert_true(~log_error, Succ("s3bench"))
          /\ abort_msg' = IF log_error THEN "S3bench workload failed"
                          ELSE abort_msg
     \/ /\ pc' = "aborted"
        /\ abort_msg' = "raised"
        /\ UNCHANGED resp
  /\ UNCHANGED <<idx, manifest>>
  /\ UNCHANGED <<Params, PollVars, UsyVars>>

\* ---- destroy phase
IfDestroy == Gate("if_destroy", flags.destroy, "ended")

\* destroy_setup(master_node_list[0], worker_node_list): what a command
\* raises inside it is caught and returned as False, error.
DestroyMaster ==
  /\ pc = "destroy_master"
  /\ IF masters = 0
     THEN /\ pc' = "aborted"
          /\ abort_msg' = "IndexError"
          /\ UNCHANGED <<issued, resp>>
     ELSE /\ Issue(<< <<"destroy", "m", 1>> >>)
          /\ \/ /\ pc' = Succ("destroy_master")
                /\ UNCHANGED resp
             \/ /\ pc' = "destroy_ret"
                /\ resp' = [ok |-> FALSE, msg |-> "error"]
          /\ UNCHANGED abort_msg
  /\ idx' = 1
  /\ UNCHANGED manifest
  /\ UNCHANGED <<Params, PollVars, UsyVars>>

WorkerUmount ==
  /\ pc = "umount"
  /\ Issue(<< <<"umount", "w", idx>> >>)
  /\ \/ /\ pc' = Succ("umount")
        /\ UNCHANGED resp
     \/ /\ pc' = "destroy_ret"
        /\ resp' = [ok |-> FALSE, msg |-> "error"]
  /\ UNCHANGED <<idx, abort_msg, manifest>>
  /\ UNCHANGED <<Params, PollVars, UsyVars>>

WorkerRemove ==
  /\ pc = "rm"
  /\ Issue(<< <<"rm_3rd_party", "w", idx>> >>)
  /\ \/ /\ pc' = IF idx < Workers THEN "umount" ELSE Succ("rm")
        /\ idx' = IF idx < Workers THEN idx + 1 ELSE idx
        /\ resp' = IF idx < Workers THEN resp ELSE [ok |-> TRUE, msg |-> "resp"]
     \/ /\ pc' = "destroy_ret"
        /\ resp' = [ok |-> FALSE, msg |-> "error"]
        /\ UNCHANGED idx
  /\ UNCHANGED <<abort_msg, manifest>>
  /\ UNCHANGED <<Params, PollVars, UsyVars>>

\* assert_utils.assert_true(resp[0], resp[1]) on what destroy_setup returned
AssertDestroy ==
  /\ pc = "destroy_ret"
  /\ pc' = assert_true(resp.ok, Succ("destroy_ret"))
  /\ abort_msg' = IF resp.ok THEN abort_msg ELSE resp.msg
  /\ UNCHANGED <<issued, idx, resp, manifest>>
  /\ UNCHANGED <<Params, PollVars, UsyVars>>

\* ------------------------------------------- pods_helper.py: LogicalNode
\* What the helper methods leave alone (time.sleep moves now).
PodsFrame == <<flags, masters, idx, resp, abort_msg, sol_file, latency,
               start_time, end_time, polls, sleeps, first_ok, n_ok, last_query,
               min_gap, pod_name, cluster_status, conf, manifest, data_disk_per_cvg,
               data_devices, metadata_devices, sys_disk_pernode, ret>>

\* os.path.join("/root", deployment_name + "_backup.yaml")
BackupPath(deployment_name) == "/root/" \o deployment_name \o "_backup.yaml"

\* What a method returns from its except clause: False, error.
Failed == [kind |-> "error"]

\* ---- get_helm_rel_name_rev
\* The lines of "helm history <rel>" below the header: revisions 1..k.
Histories == {[i \in 1..k |-> i] : k \in 1..MaxRev}

\* A release of "helm list": whether its line holds search_str, whether its
\* recorded values mention deployment_name, and its history.
ReleaseName(i) == "rel" \o ToString(i)

ReleaseLists ==
  UNION {{[i \in 1..n |-> [name |-> ReleaseName(i), listed |-> l[i],
                           refs |-> r[i], history |-> h[i]]] :
            l \in [1..n -> BOOLEAN], r \in [1..n -> BOOLEAN],
            h \in [1..n -> Histories]} : n \in 0..MaxReleases}

\* HELM_LIST + " | grep search_str": the listed releases, in order.
IsListed(rel) == rel.listed

Grep(rels) == SelectSeq(rels, IsListed)

\* rev = output[-1].split()[0]
Revision(history) == history[Len(history)]

\* The last release whose values mention the deployment.
get_helm_rel_name_rev_last(rels) ==
  LET releases == Grep(rels)
      matching == {i \in DOMAIN releases : releases[i].refs}
  IN IF matching = {}
     THEN [kind |-> "not_found",
           releases |-> [i \in DOMAIN releases |-> releases[i].name]]
     ELSE LET i == CHOOSE m \in matching : \A o \in matching : m >= o
          IN [kind |-> "found", rel |-> releases[i].name,
              rev |-> Revision(releases[i].history)]

\* for rel in releases: the first release whose values mention the deployment.
get_helm_rel_name_rev(rels) ==
  LET releases == Grep(rels)
      matching == {i \in DOMAIN releases : releases[i].refs}
  IN IF matching = {}
     THEN [kind |-> "not_found",
           releases |-> [i \in DOMAIN releases |-> releases[i].name]]
     ELSE LET i == CHOOSE m \in matching : \A o \in matching : m <= o
          IN [kind |-> "found", rel |-> releases[i].name,
              rev |-> Revision(releases[i].history)]

\* The helm commands get_helm_rel_name_rev issues when none of them raises.
HelmQueries(rels) ==
  LET releases == Grep(rels)
      matching == {i \in DOMAIN releases : releases[i].refs}
      last == IF matching = {} THEN Len(releases)
              ELSE CHOOSE m \in matching : \A o \in matching : m <= o
  IN << <<"helm_list", "m", 1>> >>
     \o [i \in 1..last |-> <<"helm_get_values", "m", 1, releases[i].name>>]
     \o (IF matching = {} THEN <<>>
         ELSE << <<"helm_history", "m", 1, releases[last].name>> >>)

\* ---- delete_deployment
\* resp = self.get_deploy_replicaset(pod_name); deploy = resp[1]
DelLookup ==
  /\ pc = "del_lookup"
  /\ Issue(<< <<"get_pod_details", "m", 1>> >>)
  /\ \E deploy \in {"dep", "error"} :
       kube' = [kube EXCEPT !.deploy = deploy]
  /\ pc' = "del_backup"
  /\ UNCHANGED now
  /\ UNCHANGED PodsFrame

\* backup_deployment(deploy): True, backup_path or, from its except clause,
\* False, error; delete_deployment takes resp[1] as backup_path.
DelBackup ==
  /\ pc = "del_backup"
  /\ IF kube.deploy = "error"
     THEN \* deployment_name + "_backup.yaml" raises inside backup_deployment
          /\ kube' = [kube EXCEPT !.backup_path = "error"]
          /\ UNCHANGED issued
     ELSE /\ Issue(<< <<"kubectl_backup", "m", 1, kube.deploy>> >>)
          /\ \/ kube' = [kube EXCEPT !.file = kube.deployment,
                                     !.backup_path = BackupPath(kube.deploy)]
             \/ kube' = [kube EXCEPT !.backup_path = "error"]
  /\ pc' = "del_delete"
  /\ UNCHANGED now
  /\ UNCHANGED PodsFrame

\* cmd = commands.KUBECTL_DEL_DEPLOY.format(deploy); self.execute_cmd(cmd)
DelDelete ==
  /\ pc = "del_delete"
  /\ Issue(<< <<"kubectl_delete_deploy", "m", 1, kube.deploy>> >>)
  /\ \/ /\ kube.deploy # "error"
        /\ kube' = [kube EXCEPT !.deployment = NoDeployment]
        /\ pc' = "del_check"
     \/ /\ kube' = [kube EXCEPT !.result = Failed]
        /\ pc' = "del_ret"
  /\ UNCHANGED now
  /\ UNCHANGED PodsFrame

\* time.sleep(60); status = True if output else False;
\* return status, backup_path, deploy
DelCheck ==
  /\ pc = "del_check"
  /\ now' = now + POLL_SLEEP
  /\ Issue(<< <<"get_pod_details", "m", 1>> >>)
  /\ \E status \in BOOLEAN :
       kube' = [kube EXCEPT !.result = [kind |-> "deleted", status |-> status,
                                        backup_path |-> kube.backup_path,
                                        deploy |-> kube.deploy]]
  /\ pc' = "del_ret"
  /\ UNCHANGED PodsFrame

\* The caller goes on to one of the two recovery methods with what
\* delete_deployment returned.
Recover ==
  /\ pc = "del_ret"
  /\ kube.result.kind = "deleted"
  /\ \/ pc' = "rk_apply" /\ kube' = [kube EXCEPT !.backup_path = kube.result.backup_path]
     \/ pc' = "rh_lookup" /\ UNCHANGED kube
  /\ UNCHANGED <<issued, now>>
  /\ UNCHANGED PodsFrame

\* ---- recover_deployment_k8s(backup_path, deployment_name)
\* The deployment created from a backed-up document: the cluster gives it a
\* new uid.
Recreated(doc) == [doc EXCEPT !.uid = @ + 1]

\* cmd = commands.KUBECTL_RECOVER_DEPLOY.format(backup_path)
RkApply ==
  /\ pc = "rk_apply"
  /\ Issue(<< <<"kubectl_recover", "m", 1, kube.backup_path>> >>)
  /\ \/ /\ kube.backup_path = BackupPath(kube.deploy)
        /\ kube.file # NoDeployment
        /\ kube' = [kube EXCEPT !.deployment = Recreated(kube.file)]
        /\ pc' = "rk_check"
     \/ /\ kube' = [kube EXCEPT !.result =
                      IF kube.backup_path = BackupPath(kube.deploy)
                         /\ kube.file # NoDeployment
                      THEN Failed
                      ELSE [kind |-> "error", no_file |-> TRUE]]
        /\ pc' = "rec_ret"
  /\ UNCHANGED now
  /\ UNCHANGED PodsFrame

\* time.sleep(60); status = True if output else False; return status, output
RkCheck ==
  /\ pc = "rk_check"
  /\ now' = now + POLL_SLEEP
  /\ Issue(<< <<"get_pod_details", "m", 1>> >>)
  /\ \E status \in BOOLEAN :
       kube' = [kube EXCEPT !.result = [kind |-> "recovered", status |-> status]]
  /\ pc' = "rec_ret"
  /\ UNCHANGED PodsFrame

\* ---- recover_deployment_helm(deployment_name)
\* resp = self.get_helm_rel_name_rev(deployment_name); helm_rel = resp[1];
\* rel_revision = resp[2] - an IndexError when no release was found.
RhLookup ==
  /\ pc = "rh_lookup"
  /\ \/ LET found == get_helm_rel_name_rev(kube.releases)
        IN /\ Issue(HelmQueries(kube.releases))
           /\ IF found.kind = "found"
              THEN /\ kube' = [kube EXCEPT !.result = found]
                   /\ pc' = "rh_rollback"
              ELSE /\ kube' = [kube EXCEPT !.result = Failed]
                   /\ pc' = "rec_ret"
     \/ /\ Issue(<< <<"helm_list", "m", 1>> >>)
        /\ kube' = [kube EXCEPT !.result = Failed]
        /\ pc' = "rec_ret"
  /\ UNCHANGED now
  /\ UNCHANGED PodsFrame

\* cmd = commands.HELM_ROLLBACK.format(helm_rel, rel_revision)
RhRollback ==
  /\ pc = "rh_rollback"
  /\ Issue(<< <<"helm_rollback", "m", 1, kube.result.rel, kube.result.rev>> >>)
  /\ \/ /\ kube' = [kube EXCEPT !.deployment =
                      IF kube.deployment = NoDeployment
                      THEN Recreated(kube.before) ELSE kube.deployment]
        /\ pc' = "rh_check"
     \/ /\ kube' = [kube EXCEPT !.result = Failed]
        /\ pc' = "rec_ret"
  /\ UNCHANGED now
  /\ UNCHANGED PodsFrame

\* time.sleep(60); status = True if output else False;
\* return status, helm_rel, rel_revision
RhCheck ==
  /\ pc = "rh_check"
  /\ now' = now + POLL_SLEEP
  /\ Issue(<< <<"get_pod_details", "m", 1>> >>)
  /\ \E status \in BOOLEAN :
       kube' = [kube EXCEPT !.result = [kind |-> "rolled_back", status |-> status,
                                        rel |-> kube.result.rel,
                                        rev |-> kube.result.rev]]
  /\ pc' = "rec_ret"
  /\ UNCHANGED PodsFrame

\* ----------------------------------------------------------- specifications
\* Everything but the parameters, the position and the manifest.
InitLocals ==
  /\ issued = <<>>
  /\ idx = 1
  /\ resp = NoResp
  /\ abort_msg = "none"
  /\ now = 0
  /\ start_time = 0
  /\ end_time = 0
  /\ polls = 0
  /\ sleeps = 0
  /\ first_ok = "none"
  /\ n_ok = 0
  /\ last_query = 0
  /\ min_gap = POLL_TIMEOUT
  /\ pod_name = "none"
  /\ data_disk_per_cvg = conf.data_disk_per_cvg
  /\ data_devices = <<>>
  /\ metadata_devices = <<>>
  /\ sys_disk_pernode = <<>>
  /\ ret = NoRet
  /\ kube = NoKube

\* update_sol_yaml called on a freshly fetched template, for every
\* configuration within the bounds.
InitPart ==
  /\ conf \in Confs
  /\ cluster_status = NoDoc
  /\ flags = [NoFlags EXCEPT !.deploy = TRUE]
  /\ masters = 1
  /\ sol_file = TRUE
  /\ latency = {0}
  /\ pc = "usy_loop"
  /\ manifest = Template
  /\ InitLocals

NextPart ==
  \/ PartitionNode
  \/ UpdatePasswordSolFile
  \/ UpdateImageSectionSolFile
  \/ UpdateCvgSolFile
  \/ UpdateNodesSolFile

SpecPart == InitPart /\ [][NextPart]_vars

\* The configurations test_deployment is run with: two accepted ones (exact
\* use, and a single worker with spare devices) and the two rejections.
DeployConfs ==
  {[workers |-> <<7, 7>>, cvg_count |-> 2, data_disk_per_cvg |-> 2,
    sns |-> <<1, 0, 0>>, dix |-> <<1, 0, 0>>, skip_disk_count_check |-> FALSE,
    images |-> DefaultImages],
   [workers |-> <<6>>, cvg_count |-> 2, data_disk_per_cvg |-> 0,
    sns |-> <<1, 0, 0>>, dix |-> <<1, 0, 0>>, skip_disk_count_check |-> FALSE,
    images |-> DefaultImages],
   [workers |-> <<5>>, cvg_count |-> 2, data_disk_per_cvg |-> 1,
    sns |-> <<4, 2, 1>>, dix |-> <<1, 0, 0>>, skip_disk_count_check |-> FALSE,
    images |-> DefaultImages],
   [workers |-> <<7, 4>>, cvg_count |-> 2, data_disk_per_cvg |-> 2,
    sns |-> <<1, 0, 0>>, dix |-> <<1, 0, 0>>, skip_disk_count_check |-> FALSE,
    images |-> DefaultImages]}

FlagSets == [setup : BOOLEAN, deploy : BOOLEAN, client : BOOLEAN,
             basic : BOOLEAN, bench : BOOLEAN, destroy : BOOLEAN]

\* test_deployment, for every setting of the six toggles.
Init ==
  /\ conf \in DeployConfs
  /\ flags \in FlagSets
  /\ masters \in 0..MaxMasters
  /\ sol_file \in BOOLEAN
  /\ latency = {SlowQueryTime}
  /\ cluster_status = NoDoc
  /\ pc = "if_setup"
  /\ manifest = Template
  /\ InitLocals

Next ==
  \/ IfSetup
  \/ SetupK8sCluster
  \/ ValidateMasterTainted
  \/ TaintMaster
  \/ IfDeploy
  \/ CheckoutSolutionFile
  \/ PartitionNode
  \/ UpdatePasswordSolFile
  \/ UpdateImageSectionSolFile
  \/ UpdateCvgSolFile
  \/ UpdateNodesSolFile
  \/ AssertUpdate
  \/ DccCheck
  \/ PrereqVm
  \/ WorkerDockerLogin
  \/ WorkerPrereqGit
  \/ WorkerCopySolFile
  \/ ExecutePrereqCortx
  \/ PullThirdPartyImages
  \/ MasterDockerLogin
  \/ MasterPrereqGit
  \/ MasterCopySolFile
  \/ DeployCluster
  \/ ValidateClusterStatus
  \/ AssertDeploy
  \/ GetPodName
  \/ PollStart
  \/ Poll
  \/ Sleep
  \/ AssertPoll
  \/ IfClient
  \/ GetIpIface
  \/ ConfigureHaproxy
  \/ PostDeploymentSteps
  \/ IfBasic
  \/ BasicIo
  \/ IfBench
  \/ SetupS3bench
  \/ IoWorkload
  \/ IfDestroy
  \/ DestroyMaster
  \/ WorkerUmount
  \/ WorkerRemove
  \/ AssertDestroy

Spec == Init /\ [][Next]_vars

\* One run with every phase enabled, in which a status query may also take
\* QueryTime seconds; the run is never suspended for good while it can go on.
InitTimed ==
  /\ conf \in {c \in DeployConfs : c.workers = <<7, 7>>}
  /\ flags = [setup |-> TRUE, deploy |-> TRUE, client |-> TRUE,
              basic |-> TRUE, bench |-> TRUE, destroy |-> TRUE]
  /\ masters = 1
  /\ sol_file = TRUE
  /\ latency = {0, QueryTime}
  /\ cluster_status = NoDoc
  /\ pc = "if_setup"
  /\ manifest = Template
  /\ InitLocals

SpecTimed == InitTimed /\ [][Next]_vars /\ WF_vars(Next)

\* get_hctl_status on every status document within the bounds.
InitHctl ==
  /\ cluster_status \in StatusDocs
  /\ conf \in {c \in DeployConfs : c.workers = <<7, 7>>}
  /\ flags = NoFlags
  /\ masters = 1
  /\ sol_file = TRUE
  /\ latency = {0}
  /\ pc = "hctl"
  /\ manifest = Template
  /\ InitLocals

NextHctl == GetHctlStatus

SpecHctl == InitHctl /\ [][NextHctl]_vars

\* Durability counts tried by the runs of the edit passes: one digit, the
\* largest one-digit count, and a count of two digits.
MaxDur == 10

DurTriples == {0, 9, MaxDur} \X {0, 9, MaxDur} \X {0, 9, MaxDur}

\* Two equal workers with exactly g * d data devices, and every durability.
EditConfs ==
  [workers : {<<7, 7>>},
   cvg_count : {2},
   data_disk_per_cvg : {2},
   sns : DurTriples,
   dix : DurTriples,
   skip_disk_count_check : {TRUE},
   images : {DefaultImages}]

\* update_sol_yaml on every template, well-formed or not.
InitEdit ==
  /\ conf \in EditConfs
  /\ cluster_status = NoDoc
  /\ flags = [NoFlags EXCEPT !.deploy = TRUE]
  /\ masters = 1
  /\ sol_file = TRUE
  /\ latency = {0}
  /\ pc = "usy_loop"
  /\ manifest \in Templates
  /\ InitLocals

SpecEdit == InitEdit /\ [][NextPart]_vars

\* Every configuration of the image keys: the product-image keys, the
\* configured third-party images and the injected third-party images.
ImageConfigs ==
  {[cortx_images_key |-> ck,
    third_party_images |-> [k \in tk |-> "default"],
    third_party_images_dict |-> [k \in ik |-> "injected"]] :
     ck \in SUBSET ImageKeys, tk \in SUBSET ImageKeys, ik \in SUBSET ImageKeys}

\* update_sol_yaml with every configuration of the image keys, on templates
\* whose images section holds any of the keys.
InitImage ==
  /\ conf \in [workers : {<<7, 7>>},
               cvg_count : {2},
               data_disk_per_cvg : {2},
               sns : {<<1, 0, 0>>},
               dix : {<<1, 0, 0>>},
               skip_disk_count_check : {FALSE},
               images : ImageConfigs]
  /\ cluster_status = NoDoc
  /\ flags = [NoFlags EXCEPT !.deploy = TRUE]
  /\ masters = 1
  /\ sol_file = TRUE
  /\ latency = {0}
  /\ pc = "usy_loop"
  /\ manifest \in {[Template EXCEPT !.images = [k \in ks |-> "template"]] :
                     ks \in SUBSET ImageKeys}
  /\ InitLocals

SpecImage == InitImage /\ [][NextPart]_vars

\* The deployments tried: what their volumes are bound to.
Deployments == {[storage |-> st, uid |-> 1] : st \in {"pvc-a", "pvc-b"}}

\* Status documents tried after a recovery: none, every service started, one
\* service offline.
RecoveryStatusDocs ==
  {NoDoc, DocOf(<< <<"started">> >>), DocOf(<< <<"started", "offline">> >>)}

InitKube(rels, start) ==
  /\ kube \in {[NoKube EXCEPT !.deployment = dep, !.before = dep,
                              !.releases = r, !.deploy = "dep"] :
                 dep \in Deployments, r \in rels}
  /\ cluster_status \in RecoveryStatusDocs
  /\ conf \in {c \in DeployConfs : c.workers = <<7, 7>>}
  /\ flags = NoFlags
  /\ masters = 1
  /\ sol_file = TRUE
  /\ latency = {0}
  /\ pc = start
  /\ manifest = Template
  /\ issued = <<>>
  /\ idx = 1
  /\ resp = NoResp
  /\ abort_msg = "none"
  /\ now = 0
  /\ start_time = 0
  /\ end_time = 0
  /\ polls = 0
  /\ sleeps = 0
  /\ first_ok = "none"
  /\ n_ok = 0
  /\ last_query = 0
  /\ min_gap = POLL_TIMEOUT
  /\ pod_name = "none"
  /\ data_disk_per_cvg = conf.data_disk_per_cvg
  /\ data_devices = <<>>
  /\ metadata_devices = <<>>
  /\ sys_disk_pernode = <<>>
  /\ ret = NoRet

\* recover_deployment_helm on every list of releases within the bounds.
InitHelm == InitKube(ReleaseLists, "rh_lookup")

NextHelm ==
  \/ RhLookup
  \/ RhRollback
  \/ RhCheck

SpecHelm == InitHelm /\ [][NextHelm]_vars

\* ---- send_k8s_cmd
kube_commands == {"create", "apply", "config", "get", "explain",
                  "autoscale", "patch", "scale", "exec"}

\* The operations a caller may ask for.
Operations == kube_commands \cup {"delete", "describe", "logs"}

\* Every operation let through.
AllowedAny(operation) == TRUE

\* if operation not in LogicalNode.kube_commands: raise ValueError
Allowed(operation) == operation \in kube_commands

\* send_k8s_cmd: the ValueError, or the one command it executes.
send_k8s_cmd(operation, pod, command_suffix) ==
  IF ~Allowed(operation)
  THEN [kind |-> "raised", error |-> "ValueError", cmds |-> <<>>]
  ELSE [kind |-> "output",
        cmds |-> << <<"kubectl", "m", 1, operation, pod, command_suffix>> >>]

\* ---- get_all_pods_containers
\* pod_list as passed: None (the default) or a list of pod names.
None == [kind |-> "None"]

List(items) == [kind |-> "list", items |-> items]

\* The pod names a listing may show.
ListedPods == {"cortx-data-pod-1", "cortx-data-pod-2", "cortx-server-pod-1"}

Prefixes == {"cortx-data", "cortx-server", "cortx-control"}

\* Listings of distinct pod names, in any order.
Listings ==
  {l \in UNION {[1..n -> ListedPods] : n \in 0..MaxPods} :
     \A i, j \in DOMAIN l : i # j => l[i] # l[j]}

\* pod_prefix in lines
Contains(lines, pod_prefix) ==
  <<pod_prefix, lines>> \in {<<"cortx-data", "cortx-data-pod-1">>,
                            <<"cortx-data", "cortx-data-pod-2">>,
                            <<"cortx-server", "cortx-server-pod-1">>}

\* The lines of the listing that hold the prefix, in order.
Matching(listing, pod_prefix) ==
  SelectSeq(listing, LAMBDA lines : Contains(lines, pod_prefix))

\* get_all_pods_containers: the exception it raises or the dictionary it
\* returns (pods: its keys in insertion order), with the commands executed.
\* containers[pod]: how many names the container query prints for pod.
get_all_pods_containers(listing, pod_prefix, pod_list, containers) ==
  LET collect == pod_list.kind = "None" \/ pod_list.items = <<>>
      listed == IF collect THEN << <<"pod_status", "m", 1>> >> ELSE <<>>
      matches == Matching(listing, pod_prefix)
  IN  IF pod_list.kind = "None"
      THEN \* None.append(...) at the first match, else iterating over None
           [kind |-> "raised",
            error |-> IF matches # <<>> THEN "AttributeError" ELSE "TypeError",
            cmds |-> listed]
      ELSE LET pods == IF collect THEN matches ELSE pod_list.items
           IN  [kind |-> "dict",
                pods |-> pods,
                pod_containers |-> [p \in Range(pods) |-> containers[p]],
                cmds |-> listed \o [i \in 1..Len(pods) |->
                                      <<"get_containers", "m", 1, pods[i]>>]]

\* ---- send_sync_command
\* One send_k8s_cmd("exec", pod, ..., "-c cnt -- sync") per container of
\* every pod of the dictionary; a ValueError ends the loops.
RECURSIVE SyncCmds(_, _)
SyncCmds(pods, pod_containers) ==
  IF pods = <<>> THEN <<>>
  ELSE [c \in 1..pod_containers[Head(pods)] |->
          send_k8s_cmd("exec", Head(pods), c)] \o SyncCmds(Tail(pods), pod_containers)

\* The commands of the calls up to and with the first that raised.
RECURSIVE Executed(_)
Executed(calls) ==
  IF calls = <<>> THEN <<>>
  ELSE IF Head(calls).kind = "raised" THEN <<>>
  ELSE Head(calls).cmds \o Executed(Tail(calls))

\* What the helper methods below leave alone.
SyncFrame == <<flags, masters, idx, sol_file, latency, now, start_time, end_time,
               polls, sleeps, first_ok, n_ok, last_query, min_gap, pod_name,
               cluster_status, conf, manifest, data_disk_per_cvg, data_devices,
               metadata_devices, sys_disk_pernode, ret>>

SendK8sCmd ==
  /\ pc = "k8s_cmd"
  /\ LET r == send_k8s_cmd(kube.operation, kube.pod_prefix, "suffix")
     IN  /\ Issue(r.cmds)
         /\ IF r.kind = "raised"
            THEN /\ pc' = "aborted"
                 /\ abort_msg' = r.error
                 /\ UNCHANGED resp
            ELSE /\ pc' = "k8s_ret"
                 /\ resp' = [ok |-> TRUE, msg |-> "output"]
                 /\ UNCHANGED abort_msg
  /\ UNCHANGED kube
  /\ UNCHANGED SyncFrame

GetAllPodsContainers ==
  /\ pc = "gapc"
  /\ LET r == get_all_pods_containers(kube.listing, kube.pod_prefix,
                                      kube.pod_list, kube.containers)
     IN  /\ Issue(r.cmds)
         /\ IF r.kind = "raised"
            THEN /\ pc' = "aborted"
                 /\ abort_msg' = r.error
                 /\ UNCHANGED kube
            ELSE /\ pc' = "gapc_ret"
                 /\ kube' = [kube EXCEPT !.result = r]
                 /\ UNCHANGED abort_msg
  /\ UNCHANGED resp
  /\ UNCHANGED SyncFrame

\* pod_dict = self.get_all_pods_containers(pod_prefix=pod_prefix), then the
\* loops over pod_dict.items(); return True
SendSyncCommand ==
  /\ pc = "sync"
  /\ LET pod_dict == get_all_pods_containers(kube.listing, kube.pod_prefix,
                                             None, kube.containers)
     IN  IF pod_dict.kind = "raised"
         THEN /\ Issue(pod_dict.cmds)
              /\ pc' = "aborted"
              /\ abort_msg' = pod_dict.error
              /\ UNCHANGED resp
         ELSE LET calls == SyncCmds(pod_dict.pods, pod_dict.pod_containers)
                  raised == \E i \in DOMAIN calls : calls[i].kind = "raised"
              IN  /\ Issue(pod_dict.cmds \o Executed(calls))
                  /\ pc' = IF raised THEN "aborted" ELSE "sync_ret"
                  /\ abort_msg' = IF raised THEN "ValueError" ELSE abort_msg
                  /\ resp' = IF raised THEN resp ELSE [ok |-> TRUE, msg |-> "True"]
  /\ UNCHANGED kube
  /\ UNCHANGED SyncFrame

\* delete_deployment on a deployment that exists, followed by one of the two
\* recovery methods.
InitPods ==
  InitKube({rl \in ReleaseLists : Len(rl) = 1 /\ rl[1].listed /\ Len(rl[1].history) = 1},
           "del_lookup")

NextPods ==
  \/ DelLookup
  \/ DelBackup
  \/ DelDelete
  \/ DelCheck
  \/ Recover
  \/ RkApply
  \/ RkCheck
  \/ RhLookup
  \/ RhRollback
  \/ RhCheck

SpecPods == InitPods /\ [][NextPods]_vars

\* ------------------------------- test_di_with_s3_params.py: TestDIWithChangingS3Params
\* An S3 server configuration: the two data-integrity parameters.
S3Configs == [WRITE_PARAM : BOOLEAN, READ_PARAM : BOOLEAN]

\* S3H_OBJ.copy_s3server_file(file_path, local_path): the configuration file
\* of the helper's own host, the first node, copied to local_path.
copy_s3server_file(k) == [k EXCEPT !.saved = k.s3config[1]]

\* S3H_OBJ.update_s3config(parameter, value, host): the parameter set in the
\* configuration file of host.
update_s3config(k, host, parameter, value) ==
  [k EXCEPT !.s3config[host] =
     IF parameter = "WRITE_PARAM" THEN [@ EXCEPT !.WRITE_PARAM = value]
     ELSE [@ EXCEPT !.READ_PARAM = value]]

\* di_lib.copy_local_to_s3_config(backup_path, host): the local file put in
\* place of the configuration file of host.
copy_local_to_s3_config(k, host) == [k EXCEPT !.s3config[host] = k.saved]

\* S3H_OBJ.restart_s3server_processes(host): the S3 server processes of host
\* start again and read the configuration file of host.
restart_s3server_processes(k, host) == [k EXCEPT !.running[host] = k.s3config[host]]

\* The restart without a host: the helper's own host.
RestartHostDefault(node) == 1

\* restart_s3server_processes(host=node['hostname'], ...)
RestartHost(node) == node

\* What the test class leaves alone.
DiFrame == <<flags, masters, sol_file, latency, now, start_time, end_time,
             polls, sleeps, first_ok, n_ok, last_query, min_gap, pod_name,
             cluster_status, conf, manifest, data_disk_per_cvg, data_devices,
             metadata_devices, sys_disk_pernode, ret, resp>>

\* setup_method: get_config_file()
SetupMethod ==
  /\ pc = "di_setup"
  /\ Issue(<< <<"copy_s3server_file", "n", 1>> >>)
  /\ \/ /\ kube' = copy_s3server_file(kube)
        /\ pc' = "di_update"
        /\ UNCHANGED abort_msg
     \/ \* setup fails: neither the test nor teardown_method runs
        /\ pc' = "aborted"
        /\ abort_msg' = "raised"
        /\ UNCHANGED kube
  /\ UNCHANGED idx
  /\ UNCHANGED DiFrame

\* One iteration over nodes of update_s3config_and_restart_s3_server; an
\* exception ends the test, and teardown_method runs.
UpdateS3configAndRestartS3Server ==
  /\ pc = "di_update"
  /\ \/ /\ Issue(<< <<"update_s3config", "n", idx>>,
                   <<"restart_s3server_processes", "n", RestartHostDefault(idx), "test">> >>)
        /\ kube' = restart_s3server_processes(
                     update_s3config(
                       update_s3config(kube, idx, "WRITE_PARAM", kube.params.WRITE_PARAM),
                       idx, "READ_PARAM", kube.params.READ_PARAM),
                     RestartHostDefault(idx))
        /\ IF idx < kube.nodes
           THEN /\ idx' = idx + 1
                /\ pc' = "di_update"
           ELSE /\ idx' = 1
                /\ pc' = "di_test"
     \/ /\ Issue(<< <<"update_s3config", "n", idx>> >>)
        /\ kube' = [kube EXCEPT !.outcome = "error"]
        /\ idx' = 1
        /\ pc' = "di_copy"
  /\ UNCHANGED abort_msg
  /\ UNCHANGED DiFrame

\* The rest of a test: it passes or an assertion fails; teardown_method
\* runs in both cases.
TestBody ==
  /\ pc = "di_test"
  /\ \E outcome \in {"passed", "failed"} : kube' = [kube EXCEPT !.outcome = outcome]
  /\ pc' = "di_copy"
  /\ UNCHANGED <<issued, idx, abort_msg>>
  /\ UNCHANGED DiFrame

\* teardown_method, put_config_file_restart_server: the copy for node idx.
PutConfigFile ==
  /\ pc = "di_copy"
  /\ Issue(<< <<"copy_local_to_s3_config", "n", idx>> >>)
  /\ \/ /\ kube' = copy_local_to_s3_config(kube, idx)
        /\ pc' = "di_restart"
        /\ UNCHANGED abort_msg
     \/ /\ pc' = "aborted"
        /\ abort_msg' = "raised"
        /\ UNCHANGED kube
  /\ UNCHANGED idx
  /\ UNCHANGED DiFrame

\* put_config_file_restart_server: the restart for node idx, then the next
\* node.
RestartServer ==
  /\ pc = "di_restart"
  /\ Issue(<< <<"restart_s3server_processes", "n", RestartHost(idx), "teardown">> >>)
  /\ \/ /\ kube' = restart_s3server_processes(kube, RestartHost(idx))
        /\ IF idx < kube.nodes
           THEN /\ idx' = idx + 1
                /\ pc' = "di_copy"
           ELSE /\ idx' = idx
                /\ pc' = "di_done"
        /\ UNCHANGED abort_msg
     \/ /\ pc' = "aborted"
        /\ abort_msg' = "raised"
        /\ UNCHANGED <<kube, idx>>
  /\ UNCHANGED DiFrame

\* send_sync_command, get_all_pods_containers and send_k8s_cmd, each
\* called on its own on every listing and pod list within the bounds.
SyncInputs ==
  {NoKube @@
     [entry |-> e, listing |-> l, pod_prefix |-> p, pod_list |-> pl,
      containers |-> c, operation |-> op] :
       e \in {"sync", "gapc", "k8s_cmd"}, l \in Listings, p \in Prefixes,
       pl \in {None} \cup {List(x) : x \in Listings},
       c \in {[q \in ListedPods |-> n] : n \in 1..MaxContainers},
       op \in Operations}

InitSync ==
  /\ conf = CHOOSE c \in DeployConfs : c.workers = <<7, 7>>
  /\ cluster_status = NoDoc
  /\ flags = NoFlags
  /\ masters = 1
  /\ sol_file = TRUE
  /\ latency = {0}
  /\ manifest = Template
  /\ issued = <<>>
  /\ idx = 1
  /\ resp = NoResp
  /\ abort_msg = "none"
  /\ now = 0
  /\ start_time = 0
  /\ end_time = 0
  /\ polls = 0
  /\ sleeps = 0
  /\ first_ok = "none"
  /\ n_ok = 0
  /\ last_query = 0
  /\ min_gap = POLL_TIMEOUT
  /\ pod_name = "none"
  /\ data_disk_per_cvg = conf.data_disk_per_cvg
  /\ data_devices = <<>>
  /\ metadata_devices = <<>>
  /\ sys_disk_pernode = <<>>
  /\ ret = NoRet
  /\ kube \in SyncInputs
  /\ pc = kube.entry
  /\ pc = "sync" => kube.pod_list = None /\ kube.operation = "exec"
  /\ pc = "gapc" => kube.operation = "exec"
  /\ pc = "k8s_cmd" =>
       /\ kube.listing = <<>>
       /\ kube.pod_list = None
       /\ kube.containers = [q \in ListedPods |-> 1]

NextSync ==
  \/ SendSyncCommand
  \/ GetAllPodsContainers
  \/ SendK8sCmd

SpecSync == InitSync /\ [][NextSync]_vars

\* One test of TestDIWithChangingS3Params, from setup_method to the end of
\* teardown_method, for every configuration the nodes may have and every
\* pair of parameters the test may set.
DiInputs ==
  UNION {{NoKube @@ [nodes |-> n, s3config |-> f, running |-> f,
                     saved |-> [WRITE_PARAM |-> "none", READ_PARAM |-> "none"],
                     params |-> p, outcome |-> "none"] :
            f \in [1..n -> S3Configs], p \in S3Configs} : n \in 1..MaxNodes}

InitDi ==
  /\ kube \in DiInputs
  /\ pc = "di_setup"
  /\ conf = CHOOSE c \in DeployConfs : c.workers = <<7, 7>>
  /\ cluster_status = NoDoc
  /\ flags = NoFlags
  /\ masters = 1
  /\ sol_file = TRUE
  /\ latency = {0}
  /\ manifest = Template
  /\ issued = <<>>
  /\ idx = 1
  /\ resp = NoResp
  /\ abort_msg = "none"
  /\ now = 0
  /\ start_time = 0
  /\ end_time = 0
  /\ polls = 0
  /\ sleeps = 0
  /\ first_ok = "none"
  /\ n_ok = 0
  /\ last_query = 0
  /\ min_gap = POLL_TIMEOUT
  /\ pod_name = "none"
  /\ data_disk_per_cvg = conf.data_disk_per_cvg
  /\ data_devices = <<>>
  /\ metadata_devices = <<>>
  /\ sys_disk_pernode = <<>>
  /\ ret = NoRet

NextDi ==
  \/ SetupMethod
  \/ UpdateS3configAndRestartS3Server
  \/ TestBody
  \/ PutConfigFile
  \/ RestartServer

SpecDi == InitDi /\ [][NextDi]_vars

\* deploy_cortx_cluster called on its own with the system disks of the
\* workers, the local solution file being there or not.
InitDeploy ==
  /\ conf \in DeployConfs
  /\ flags = [NoFlags EXCEPT !.deploy = TRUE]
  /\ masters \in 0..MaxMasters
  /\ sol_file \in BOOLEAN
  /\ latency = {0}
  /\ cluster_status = NoDoc
  /\ pc = "dcc_check"
  /\ manifest = Template
  /\ issued = <<>>
  /\ idx = 1
  /\ resp = NoResp
  /\ abort_msg = "none"
  /\ now = 0
  /\ start_time = 0
  /\ end_time = 0
  /\ polls = 0
  /\ sleeps = 0
  /\ first_ok = "none"
  /\ n_ok = 0
  /\ last_query = 0
  /\ min_gap = POLL_TIMEOUT
  /\ pod_name = "none"
  /\ data_disk_per_cvg = conf.data_disk_per_cvg
  /\ data_devices = <<>>
  /\ metadata_devices = <<>>
  /\ sys_disk_pernode = [w \in 1..Len(conf.workers) |-> <<w, 0>>]
  /\ ret = NoRet
  /\ kube = NoKube

NextDeploy ==
  \/ DccCheck
  \/ PrereqVm
  \/ WorkerDockerLogin
  \/ WorkerPrereqGit
  \/ WorkerCopySolFile
  \/ ExecutePrereqCortx
  \/ PullThirdPartyImages
  \/ MasterDockerLogin
  \/ MasterPrereqGit
  \/ MasterCopySolFile
  \/ DeployCluster
  \/ ValidateClusterStatus

SpecDeploy == InitDeploy /\ [][NextDeploy]_vars

\* ------------------------------------------------------------------ claims
\* What the claims about test_deployment speak of.
Done(c) == Issued(c) >= 1

TaintChecked == \A m \in 1..masters : Done(<<"chk_taint", "m", m>>)

TemplateFetched == Done(<<"curl_template", "c", 0>>)

\* The first edit pass has written / the last edit pass has written.
EditStarted == manifest.passwords

EditsFinished ==
  /\ manifest.passwords
  /\ manifest.images # Template.images
  /\ manifest.storage # Template.storage
  /\ manifest.nodes # Template.nodes

PrereqStarted == \E w \in 1..Workers : Done(<<"prereq_vm", "w", w>>)

PrereqFinished ==
  \A w \in 1..Workers :
    \E c \in DOMAIN issued : c[1] = "prereq_script" /\ c[3] = w

PullStarted == \E w \in 1..Workers : Done(<<"docker_pull", "w", w>>)

PullsIssued == \A w \in 1..Workers : Done(<<"docker_pull", "w", w>>)

ApplyIssued == Done(<<"deploy_cluster", "m", 1>>)

PollIssued == Done(<<"hctl_status", "m", 1>>)

C2_AbortIsFinal ==
  /\ [](abort_msg # "none" => pc = "aborted")
  /\ [][abort_msg # "none" => (issued' = issued /\ pc' = "aborted")]_vars
  /\ [](\A c \in DOMAIN issued : c[1] # "hctl_status" => issued[c] = 1)

\* A run aborted by a failed prerequisite check with the client-config and
\* destroy phases enabled: none of their commands was issued.
C2_Witness ==
  /\ pc = "aborted"
  /\ abort_msg = "No of CPU are not as expected."
  /\ flags.client
  /\ flags.destroy
  /\ IssuedNamed({"get_ip_iface", "configure_haproxy", "destroy", "umount"}) = {}

\* The commands of each phase.
PhaseCmds ==
  [setup |-> {"build_job", "chk_taint", "taint"},
   deploy |-> {"curl_template", "list_devices", "prereq_vm", "docker_login",
               "git_checkout", "copy_sol_file", "prereq_script", "docker_pull",
               "deploy_cluster", "cluster_status", "get_pod_name", "hctl_status"},
   client |-> {"get_ip_iface", "configure_haproxy", "create_s3_account"},
   basic |-> {"basic_io"},
   bench |-> {"s3bench"},
   destroy |-> {"destroy", "umount", "rm_3rd_party"}]

Phases == DOMAIN PhaseCmds

Ran(p) == IssuedNamed(PhaseCmds[p]) # {}

\* C3 as stated: a phase whose toggle is false issues no command, and in a
\* run that reaches its end every phase whose toggle is true has run, whatever
\* the other toggles.
C3_EveryToggleIndependent ==
  /\ \A p \in Phases : ~flags[p] => ~Ran(p)
  /\ pc = "ended" => \A p \in Phases : flags[p] => Ran(p)

\* C3 amended: a phase whose toggle is false issues no command; in a run that
\* reaches its end cluster-setup, cortx-deploy, client-config and destroy have
\* run if and only if their own toggle is true, while basic-io and workload-io
\* have run if and only if their own toggle and the client-config toggle are
\* both true.
C3_Toggles ==
  /\ \A p \in Phases : ~flags[p] => ~Ran(p)
  /\ (Ran("basic") \/ Ran("bench")) => flags.client
  /\ pc = "ended" =>
       /\ \A p \in {"setup", "deploy", "client", "destroy"} : flags[p] => Ran(p)
       /\ (flags.client /\ flags.basic) => Ran("basic")
       /\ (flags.client /\ flags.bench) => Ran("bench")

\* A completed run with basic-io on and client-config off: no IO was run.
C3_Witness ==
  /\ pc = "ended"
  /\ flags.basic
  /\ flags.bench
  /\ ~flags.client
  /\ flags.destroy
  /\ Ran("destroy")
  /\ ~Ran("basic")

\* The polling loop has been left, and no status query raised.
PollingOver == polls >= 1 /\ pc \notin {"poll", "sleep"} /\ abort_msg # "raised"

\* C4: when the first status response has every service started, polling
\* succeeds after one status query and no sleep; when no response has every
\* service started, a query follows the previous one by at least 60 seconds of
\* sleep, the loop is left only once the 30-minute deadline has passed, and
\* the run then hard-fails with the message of the last response.
C4_Polling ==
  /\ first_ok = "yes" =>
       /\ polls = 1
       /\ sleeps = 0
       /\ pc \notin {"poll", "sleep"}
       /\ pc = "poll_assert" => resp.ok
       /\ abort_msg \notin {m \in {r.msg : r \in HctlResponses} : m # MSG_STARTED}
  /\ polls >= 2 => min_gap >= POLL_SLEEP
  /\ (PollingOver /\ n_ok = 0) =>
       /\ now >= end_time
       /\ sleeps = polls
       /\ end_time = start_time + POLL_TIMEOUT
       /\ ~resp.ok
       /\ pc # "poll_assert" => (pc = "aborted" /\ abort_msg = resp.msg)

\* A run that timed out after 30 status queries, none with every service
\* started, the last one naming service svc1_2.
C4_Witness ==
  /\ pc = "aborted"
  /\ n_ok = 0
  /\ polls = 30
  /\ sleeps = 30
  /\ abort_msg = NotStartedMsg("svc1_2")

\* C5: the polling loop is always left, with success or with a hard failure
\* once the deadline is exceeded, and makes at most deadline/interval = 30
\* status queries.
C5_PollingTerminates ==
  /\ [](polls <= POLL_TIMEOUT \div POLL_SLEEP)
  /\ (pc = "poll_start") ~> (pc \notin {"poll_start", "poll", "sleep", "poll_assert"})

\* The thirtieth status query has been made.
C5_Witness ==
  /\ polls = POLL_TIMEOUT \div POLL_SLEEP
  /\ n_ok = 0
  /\ pc = "sleep"

\* The services of the status document that are not started, as
\* <<node, service>> positions.
NotStarted ==
  {p \in (1..MaxStatusNodes) \X (1..MaxSvcs) :
     /\ p[1] \in DOMAIN cluster_status.nodes
     /\ p[2] \in DOMAIN cluster_status.nodes[p[1]]
     /\ cluster_status.nodes[p[1]][p[2]].status # "started"}

Before(p, q) == p[1] < q[1] \/ (p[1] = q[1] /\ p[2] <= q[2])

\* C6: get_hctl_status returns success exactly when the status document lists
\* only started services; otherwise it returns failure naming the first service
\* (in node order, then service order) that is not started; a null document
\* yields failure.
C6_HctlStatus ==
  pc = "hctl_ret" =>
    IF cluster_status.null
    THEN ~resp.ok
    ELSE /\ resp.ok <=> NotStarted = {}
         /\ ~resp.ok =>
              \E p \in NotStarted :
                /\ \A q \in NotStarted : Before(p, q)
                /\ resp.msg = NotStartedMsg(cluster_status.nodes[p[1]][p[2]].name)

\* A document with two services not started, the first of them not the first
\* service listed.
C6_Witness ==
  /\ pc = "hctl_ret"
  /\ ~cluster_status.null
  /\ Cardinality(NotStarted) = 2
  /\ <<1, 1>> \notin NotStarted
  /\ resp.msg = NotStartedMsg("svc1_2")

\* What the claims about update_sol_yaml speak of.
Rem(w) == conf.workers[w] - conf.cvg_count - 1

Capacity == data_disk_per_cvg * conf.cvg_count * Len(conf.workers)

SnsSum == conf.sns[1] + conf.sns[2] + conf.sns[3]

DixSum == conf.dix[1] + conf.dix[2] + conf.dix[3]

\* update_sol_yaml has returned True / has returned False.
Accepted == pc = "usy_ret" /\ ret.ok

Rejected == pc = "usy_ret" /\ ~ret.ok

\* The first iteration of the worker loop has run its checks.
Checked == pc # "usy_loop" \/ idx > 1

\* The data devices the manifest assigns to volume group cvg.
AssignedData(cvg) == Range(manifest.storage[cvg].data)

AllAssignedData == UNION {AssignedData(cvg) : cvg \in DOMAIN manifest.storage}

\* The worker whose iteration of the partition loop has just run (0: none).
JustPartitioned == IF pc = "usy_loop" THEN idx - 1 ELSE Len(conf.workers)

\* The slices of worker w's devices held by data_devices.
SlicesOf(w) ==
  {i \in DOMAIN data_devices :
     data_devices[i] # <<>> /\ data_devices[i][1][1] = w}

\* C7 as stated: for a worker whose n - g - 1 is a multiple of d >= 1, the
\* data-device slices update_sol_yaml has produced from that worker's devices
\* are pairwise disjoint, their union holds exactly g * d devices, and none of
\* them is the system disk (position 0) or a metadata device (positions 1..g).
C7_SlicesProduced ==
  LET w == JustPartitioned
  IN (/\ w >= 1
      /\ pc \notin {"aborted", "usy_ret"}
      /\ data_disk_per_cvg >= 1
      /\ Rem(w) % data_disk_per_cvg = 0)
     => /\ \A i, j \in SlicesOf(w) :
             i # j => Range(data_devices[i]) \cap Range(data_devices[j]) = {}
        /\ Cardinality(UNION {Range(data_devices[i]) : i \in SlicesOf(w)})
             = conf.cvg_count * data_disk_per_cvg
        /\ \A i \in SlicesOf(w) : \A dev \in Range(data_devices[i]) :
             dev[2] \notin 0..conf.cvg_count

\* What does hold of the slices the manifest uses: when update_sol_yaml
\* succeeds with d >= 1 dividing every worker's n - g - 1, the data devices
\* written for the g volume groups are pairwise disjoint, g * d in all, and
\* none of them is a system disk or a metadata device.
ManifestSlicesDisjointCover ==
  (/\ Accepted
   /\ data_disk_per_cvg >= 1
   /\ \A w \in DOMAIN conf.workers : Rem(w) % data_disk_per_cvg = 0)
  => /\ Len(manifest.storage) = conf.cvg_count
     /\ \A a, b \in DOMAIN manifest.storage :
          a # b => AssignedData(a) \cap AssignedData(b) = {}
     /\ \A a \in DOMAIN manifest.storage :
          Cardinality(AssignedData(a)) = data_disk_per_cvg
     /\ Cardinality(AllAssignedData) = conf.cvg_count * data_disk_per_cvg
     /\ \A dev \in AllAssignedData : dev[2] \notin 0..conf.cvg_count

\* C8: the N+K+S check rejects exactly the configurations with
\* sns_data + sns_parity + sns_spare > d * g * nodeCount and
\* skip_disk_count_check false: a sum equal to d * g * nodeCount passes it, and
\* with skip_disk_count_check true nothing is rejected on it.
C8_NksCheck ==
  Checked =>
    /\ (~conf.skip_disk_count_check /\ SnsSum > Capacity)
         => (Rejected /\ ret.msg = MSG_NKS)
    /\ (conf.skip_disk_count_check \/ SnsSum <= Capacity)
         => ret.msg # MSG_NKS

\* A configuration whose sum equals the capacity exactly is accepted.
C8_Witness ==
  /\ Accepted
  /\ ~conf.skip_disk_count_check
  /\ SnsSum = Capacity

\* C9 as stated: no configuration whose DIX sum exceeds d * g * nodeCount is
\* accepted unless skip_disk_count_check is set.
C9_DixChecked ==
  Accepted => (conf.skip_disk_count_check \/ DixSum <= Capacity)

\* C9 amended: the capacity check reads the SNS counts only; a DIX sum above
\* d * g * nodeCount never makes update_sol_yaml reject.
C9_DixNotChecked ==
  (Checked /\ DixSum > Capacity /\ SnsSum <= Capacity) => ret.msg # MSG_NKS

\* Accepted with the check on and a DIX sum above the capacity.
C9_Witness ==
  /\ Accepted
  /\ ~conf.skip_disk_count_check
  /\ DixSum > Capacity

\* C10 as stated: no configuration with d * g < n - g - 1 on some worker is
\* accepted.
C10_UnderUseRejected ==
  Accepted =>
    \A w \in DOMAIN conf.workers : ~(data_disk_per_cvg * conf.cvg_count < Rem(w))

\* C10 amended: update_sol_yaml rejects only on the N+K+S check or because
\* d * g exceeds the n - g - 1 data devices of the worker at hand; under-use
\* (d * g < n - g - 1) is never a reason to reject.
C10_RejectReasons ==
  Rejected =>
    \/ /\ ret.msg = MSG_NKS
       /\ ~conf.skip_disk_count_check
       /\ SnsSum > Capacity
    \/ /\ ret.msg = MSG_MORE
       /\ Rem(idx) < data_disk_per_cvg * conf.cvg_count

\* Accepted although a worker has more data devices than the groups use.
C10_Witness ==
  /\ Accepted
  /\ \E w \in DOMAIN conf.workers : data_disk_per_cvg * conf.cvg_count < Rem(w)
  /\ data_disk_per_cvg >= 1
  /\ Cardinality(AllAssignedData) = conf.cvg_count * data_disk_per_cvg

\* C11 as stated: no configuration in which d * g exceeds the n - g - 1 data
\* devices of some worker, the first or a later one, is accepted; and a
\* configuration that passes every partitioning check never makes
\* update_cvg_sol_file index a device that does not exist.
C11_OverUseRejected ==
  /\ Accepted =>
       \A w \in DOMAIN conf.workers : data_disk_per_cvg * conf.cvg_count <= Rem(w)
  /\ abort_msg # "IndexError"

\* update_sol_yaml has returned True, now or earlier in the run.
Succeeded == ret.ok

\* C12: no data slice ever holds a device at position 0 (the system disk) or
\* at positions 1..g (the metadata devices); on success the manifest's g
\* volume groups have the devices at positions 1..g as metadata devices, in
\* order, the system-disk mapping has exactly one entry per worker, that
\* worker's device 0, and every prerequisite script issued for a worker is
\* given that worker's own entry.
C12_ReservedDevices ==
  /\ \A i \in DOMAIN data_devices : \A dev \in Range(data_devices[i]) :
       dev[2] > conf.cvg_count
  /\ Succeeded =>
       /\ DOMAIN sys_disk_pernode = DOMAIN conf.workers
       /\ \A w \in DOMAIN conf.workers : sys_disk_pernode[w] = <<w, 0>>
       /\ \A cvg \in DOMAIN manifest.storage :
            manifest.storage[cvg].metadata[2] = cvg
  /\ \A c \in DOMAIN issued :
       c[1] = "prereq_script" => c[4] = <<c[3], 0>>

\* The prerequisite script has been issued for the second of two workers.
C12_Witness ==
  /\ Succeeded
  /\ Len(conf.workers) = 2
  /\ \E c \in DOMAIN issued : c[1] = "prereq_script" /\ c[3] = 2

\* The positions, in a worker's device list, of the data devices the manifest
\* gives volume group cvg.
AssignedPositions(cvg) ==
  [k \in DOMAIN manifest.storage[cvg].data |-> manifest.storage[cvg].data[k][2]]

\* C13 as stated: when d is given as 0, update_sol_yaml neither raises nor
\* indexes out of range, and on success, for every worker with n devices, the
\* per-group size is floor((n - g - 1) / g) and the manifest holds exactly g
\* groups, group i being the d devices at positions g + 1 + (i - 1) * d ..
\* g + i * d, so that the (n - g - 1) mod g last devices are in no group.
C13_DerivedGroups ==
  conf.data_disk_per_cvg = 0 =>
    /\ abort_msg \notin {"ValueError", "IndexError"}
    /\ Accepted =>
         /\ Len(manifest.storage) = conf.cvg_count
         /\ \A w \in DOMAIN conf.workers :
              data_disk_per_cvg = Rem(w) \div conf.cvg_count
         /\ \A cvg \in DOMAIN manifest.storage :
              AssignedPositions(cvg) =
                [k \in 1..data_disk_per_cvg |->
                   conf.cvg_count + (cvg - 1) * data_disk_per_cvg + k]

\* C14: whenever update_sol_yaml has rejected the configuration on a
\* disk-partitioning check, no edit pass has written: the manifest is the
\* template as it was fetched.
C14_RejectBeforeEdit ==
  ret.msg \in {MSG_NKS, MSG_MORE} =>
    /\ ~ret.ok
    /\ manifest \in Templates

\* A run aborted because the second worker has too few data devices.
C14_Witness ==
  /\ pc = "aborted"
  /\ abort_msg = "Failure updating solution.yaml"
  /\ ret.msg = MSG_MORE
  /\ conf.workers = <<7, 4>>

\* The positions of the devices the manifest lists for volume group cvg.
DataPositions(cvg) == {dev[2] : dev \in AssignedData(cvg)}

GroupPositions(cvg) == DataPositions(cvg) \cup {manifest.storage[cvg].metadata[2]}

\* C15 as stated: after every successful update_sol_yaml the storage section
\* lists no device in two volume groups, none as both a metadata and a data
\* device, no system disk, and g * d does not exceed the n - g - 1 data devices
\* of any worker.
C15_StorageInvariant ==
  Accepted =>
    /\ \A a, b \in DOMAIN manifest.storage :
         a # b => GroupPositions(a) \cap GroupPositions(b) = {}
    /\ \A a, b \in DOMAIN manifest.storage :
         manifest.storage[a].metadata[2] \notin DataPositions(b)
    /\ \A a \in DOMAIN manifest.storage : 0 \notin GroupPositions(a)
    /\ \A w \in DOMAIN conf.workers :
         conf.cvg_count * data_disk_per_cvg <= Rem(w)

\* The sections each edit pass looks up, in the order of the passes.
Needs == <<{"secrets", "common"}, {"images"}, {"common", "storage"}, {"nodes"}>>

\* The pass about to run (5: all four have run; 0: none is due yet).
PassIndex ==
  CASE pc = "usy_password" -> 1
    [] pc = "usy_image" -> 2
    [] pc = "usy_cvg" -> 3
    [] pc = "usy_nodes" -> 4
    [] pc = "usy_ret" /\ ret.ok -> 5
    [] OTHER -> 0

\* The manifest holds the edits of the first n passes and nothing else.
PassesDone(n) ==
  /\ manifest.passwords = (n >= 1)
  /\ manifest.images = IF n >= 2 THEN ImagesSection(Template.images, conf.images)
                       ELSE Template.images
  /\ manifest.storage = IF n >= 3
                        THEN CvgStorage(metadata_devices, data_devices,
                                        conf.cvg_count, data_disk_per_cvg, "ios")
                        ELSE Template.storage
  /\ manifest.glusterfs_size = IF n >= 3 THEN "20Gi" ELSE Template.glusterfs_size
  /\ (n < 3) => (manifest.sns = Template.sns /\ manifest.dix = Template.dix)
  /\ manifest.nodes = IF n >= 4 THEN [w \in DOMAIN conf.workers |-> w]
                      ELSE Template.nodes

\* C16: the edit passes run in the order password, images, volume groups,
\* node list, each on the document the previous one wrote: when pass n is
\* about to run the manifest holds exactly the edits of passes 1..n-1, and
\* after a successful update_sol_yaml it holds the edits of all four.
C16_PassOrder ==
  /\ PassIndex >= 1 => PassesDone(PassIndex - 1)
  /\ Accepted => PassesDone(4)

\* All four passes have run on a well-formed template.
C16_Witness ==
  /\ Accepted
  /\ manifest.passwords
  /\ manifest.images["cortxdata"] = "cortx_image"
  /\ Len(manifest.storage) = 2
  /\ manifest.nodes = <<1, 2>>

\* The first pass that misses one of the sections it looks up (5: none).
FirstFailing ==
  IF \E i \in 1..4 : ~(Needs[i] \subseteq manifest.keys)
  THEN CHOOSE i \in 1..4 :
         /\ ~(Needs[i] \subseteq manifest.keys)
         /\ \A j \in 1..(i - 1) : Needs[j] \subseteq manifest.keys
  ELSE 5

\* C17: a pass that misses a section it looks up raises KeyError out of
\* update_sol_yaml, which returns nothing; no later pass runs; the failing
\* pass has written nothing, so that the manifest holds exactly the edits of
\* the passes before it.
C17_MissingKey ==
  /\ PassIndex <= FirstFailing
  /\ abort_msg = "KeyError" =>
       /\ pc = "aborted"
       /\ ~ret.ok
       /\ FirstFailing <= 4
       /\ PassesDone(FirstFailing - 1)

\* The node-list pass failed on a template without 'nodes': the manifest is
\* left with the edits of the first three passes.
C17_Witness ==
  /\ abort_msg = "KeyError"
  /\ "nodes" \notin manifest.keys
  /\ manifest.passwords
  /\ manifest.storage # Template.storage
  /\ manifest.nodes = Template.nodes

\* Reading a durability string back: the fields between the "+" signs, and
\* the number a field of decimal digits denotes.
RECURSIVE Fields(_)
Fields(str) ==
  IF \A i \in DOMAIN str : str[i] # "+" THEN <<str>>
  ELSE LET i == CHOOSE j \in DOMAIN str :
                  str[j] = "+" /\ \A k \in 1..(j - 1) : str[k] # "+"
       IN <<SubSeq(str, 1, i - 1)>> \o Fields(SubSeq(str, i + 1, Len(str)))

DigitValue(ch) == (CHOOSE i \in DOMAIN DigitChars : DigitChars[i] = ch) - 1

RECURSIVE ParseInt(_)
ParseInt(field) ==
  IF field = <<>> THEN 0
  ELSE 10 * ParseInt(SubSeq(field, 1, Len(field) - 1)) + DigitValue(field[Len(field)])

\* str is "N+K+S" for the triple t, in decimal without leading zeros.
Denotes(str, t) ==
  LET fs == Fields(str)
  IN /\ Len(fs) = 3
     /\ \A i \in 1..3 :
          /\ fs[i] # <<>>
          /\ \A k \in DOMAIN fs[i] : \E v \in DOMAIN DigitChars : DigitChars[v] = fs[i][k]
          /\ Len(fs[i]) > 1 => fs[i][1] # "0"
          /\ ParseInt(fs[i]) = t[i]

\* C18: once update_cvg_sol_file has written, the manifest's durability.sns
\* reads back as the SNS counts given and durability.dix as the DIX counts
\* given, and they still do after the node-list pass has run or has failed.
C18_DurabilityRoundTrip ==
  (PassIndex >= 4 \/ (abort_msg = "KeyError" /\ FirstFailing = 4)) =>
    /\ Denotes(manifest.sns, conf.sns)
    /\ Denotes(manifest.dix, conf.dix)

\* All passes have run with a two-digit SNS data count and a two-digit DIX
\* spare count.
C18_Witness ==
  /\ Accepted
  /\ conf.sns = <<MaxDur, 9, 0>>
  /\ conf.dix = <<0, 0, MaxDur>>
  /\ Len(manifest.sns) = 6

\* What the claims about the images section speak of.
Injected == conf.images.third_party_images_dict

Configured == conf.images.third_party_images

ProductKeys == conf.images.cortx_images_key

\* The images pass has written.
ImagesWritten == PassIndex >= 3

\* C19 as stated: after update_image_section_sol_file every injected key is
\* in the images section with the injected value, every configured
\* third-party key that was not overridden has its default, and every
\* product-image key has the product image.
C19_AllInjected ==
  ImagesWritten =>
    /\ \A k \in DOMAIN Injected :
         k \in DOMAIN manifest.images /\ manifest.images[k] = Injected[k]
    /\ \A k \in DOMAIN Configured \ DOMAIN Injected :
         k \in DOMAIN manifest.images /\ manifest.images[k] = Configured[k]
    /\ \A k \in ProductKeys :
         k \in DOMAIN manifest.images /\ manifest.images[k] = "cortx_image"

\* C19 amended: when update_image_section_sol_file writes, every injected key
\* that is a configured third-party key has the injected value, every
\* configured third-party key that was not injected has its default, every
\* product-image key that is not a configured third-party key has the product
\* image, and every other key, injected or not, is left as the manifest had
\* it: not added when absent, not changed when present.
C19_ConfiguredInjected ==
  [][(pc = "usy_image" /\ pc' = "usy_cvg") =>
       /\ \A k \in DOMAIN Injected \cap DOMAIN Configured :
            k \in DOMAIN manifest'.images /\ manifest'.images[k] = Injected[k]
       /\ \A k \in DOMAIN Configured \ DOMAIN Injected :
            k \in DOMAIN manifest'.images /\ manifest'.images[k] = Configured[k]
       /\ \A k \in ProductKeys \ DOMAIN Configured :
            k \in DOMAIN manifest'.images /\ manifest'.images[k] = "cortx_image"
       /\ \A k \in ImageKeys \ (ProductKeys \cup DOMAIN Configured) :
            /\ k \in DOMAIN manifest'.images <=> k \in DOMAIN manifest.images
            /\ k \in DOMAIN manifest.images =>
                 manifest'.images[k] = manifest.images[k]]_vars

\* An injected key that is not configured and that the template lacks is not
\* in the images section, next to an injected key that is configured.
C19_Witness ==
  /\ ImagesWritten
  /\ "kafka" \in DOMAIN Injected \ (DOMAIN Configured \cup ProductKeys)
  /\ "kafka" \notin DOMAIN manifest.images
  /\ "consul" \in DOMAIN Injected \cap DOMAIN Configured
  /\ manifest.images["consul"] = "injected"

\* The end-to-end scenario: two workers of 7 devices, g = 2, d = 2, durability
\* 1+0+0 / 1+0+0 (InitPart has one control-plane node).
InScenario ==
  /\ masters = 1
  /\ conf.workers = <<7, 7>>
  /\ conf.cvg_count = 2
  /\ conf.data_disk_per_cvg = 2
  /\ conf.sns = <<1, 0, 0>>
  /\ conf.dix = <<1, 0, 0>>

\* C20: in the scenario update_sol_yaml is never rejected and never raises;
\* after each worker's iteration the 2 metadata devices are that worker's
\* devices 1 and 2 and the data devices are its devices 3..6 in 2 slices of 2;
\* on success the manifest has 2 volume groups of 1 metadata and 2 data devices
\* each, and durability.sns and durability.dix are "1+0+0".
C20_Scenario ==
  InScenario =>
    /\ pc # "aborted"
    /\ ~Rejected
    /\ \A w \in 1..2 :
         (JustPartitioned = w) =>
           /\ metadata_devices = << <<w, 1>>, <<w, 2>> >>
           /\ data_devices = << << <<w, 3>>, <<w, 4>> >>, << <<w, 5>>, <<w, 6>> >> >>
    /\ Accepted =>
         /\ Len(manifest.storage) = 2
         /\ manifest.storage[1].metadata[2] = 1
         /\ manifest.storage[2].metadata[2] = 2
         /\ AssignedPositions(1) = <<3, 4>>
         /\ AssignedPositions(2) = <<5, 6>>
         /\ manifest.sns = <<"1", "+", "0", "+", "0">>
         /\ manifest.dix = <<"1", "+", "0", "+", "0">>

C20_Witness ==
  /\ InScenario
  /\ Accepted
  /\ Cardinality(AllAssignedData) = 4
  /\ manifest.sns = Durability(<<1, 0, 0>>)

\* A prerequisite check of prereq_vm has failed on the worker at idx.
PrereqFailed == abort_msg \in {r.msg : r \in {q \in PrereqResults : ~q.ok}}

\* C21: when a worker fails a prerequisite check the run is aborted, no
\* deployment step (registry login, repository checkout, manifest copy,
\* prerequisite script) has been issued on that worker, no later worker has
\* been processed, and neither an image pull nor the cluster apply has been
\* issued.
C21_PrereqHardStop ==
  PrereqFailed =>
    /\ pc = "aborted"
    /\ \A c \in DOMAIN issued :
         (c[2] = "w" /\ c[3] >= idx) =>
            /\ c[1] \in {"list_devices", "prereq_vm"}
            /\ c[1] = "prereq_vm" => c[3] = idx
    /\ IssuedNamed({"docker_pull", "deploy_cluster"}) = {}

\* The second worker fails its check after the first was prepared.
C21_Witness ==
  /\ PrereqFailed
  /\ idx = 2
  /\ abort_msg = "Kernel Version is different than expected."
  /\ \E c \in DOMAIN issued : c[1] = "prereq_script" /\ c[3] = 1

TaintIssuedOn(i) == Issued(<<"taint", "m", i>>)' > Issued(<<"taint", "m", i>>)

\* The cluster-setup phase has run to its end.
SetupDone ==
  /\ flags.setup
  /\ pc \in Range(ProgramOrder)
  /\ Pos(pc) > Pos("taint")

\* C23: a taint command is issued on a control-plane node only right after
\* that node's taint check, and only when the check found it untainted; a node
\* found tainted is passed over; once the phase has run every control-plane
\* node has been checked exactly once and tainted at most once, so nodes that
\* are all tainted get no taint command.
C23_TaintIdempotent ==
  /\ [][\A i \in 1..MaxMasters :
          TaintIssuedOn(i) =>
            /\ pc = "taint" /\ idx = i
            /\ ~resp.ok
            /\ Issued(<<"chk_taint", "m", i>>) = 1
            /\ Issued(<<"taint", "m", i>>) = 0]_vars
  /\ [][(pc = "chk_taint" /\ pc' # "aborted") =>
          /\ pc' = "taint" <=> ~resp'.ok
          /\ resp'.ok => Issued(<<"taint", "m", idx>>)' = 0]_vars
  /\ [](SetupDone =>
          /\ \A i \in 1..masters : Issued(<<"chk_taint", "m", i>>) = 1
          /\ IssuedNamed({"chk_taint", "taint"}) \subseteq
               {<<n, "m", i>> : n \in {"chk_taint", "taint"}, i \in 1..masters})

\* Two control-plane nodes, the first found tainted and the second not: only
\* the second has been tainted.
C23_Witness ==
  /\ SetupDone
  /\ masters = 2
  /\ Issued(<<"taint", "m", 1>>) = 0
  /\ Issued(<<"taint", "m", 2>>) = 1
  /\ Issued(<<"chk_taint", "m", 1>>) = 1

\* Worker cleanup commands of destroy_setup.
CleanupNames == {"umount", "rm_3rd_party"}

\* C24: destroy_setup issues the forced teardown on the control-plane node
\* before any worker cleanup command, and on each worker the unmount before the
\* removal of the residual directories; when the teardown fails destroy_setup
\* returns at once, and nothing is issued after it has returned.
C24_DestroyOrder ==
  /\ [](IssuedNamed(CleanupNames) # {} => Issued(<<"destroy", "m", 1>>) = 1)
  /\ [](\A w \in 1..Workers :
          /\ Issued(<<"rm_3rd_party", "w", w>>) <= Issued(<<"umount", "w", w>>)
          /\ Issued(<<"umount", "w", w>>) <= 1)
  /\ [][(pc = "destroy_master" /\ pc' = "destroy_ret") =>
          ~resp'.ok /\ IssuedNamed(CleanupNames)' = {}]_vars
  /\ [][pc = "destroy_ret" => issued' = issued /\ pc' \in {"aborted", "ended"}]_vars
  /\ [][pc' = "umount" => pc \in {"destroy_master", "rm"}]_vars

\* Both workers cleaned after the teardown.
C24_Witness ==
  /\ pc = "destroy_ret"
  /\ resp.ok
  /\ Workers = 2
  /\ Issued(<<"destroy", "m", 1>>) = 1
  /\ Issued(<<"umount", "w", 2>>) = 1
  /\ Issued(<<"rm_3rd_party", "w", 2>>) = 1

\* C25 as stated: in destroy_setup a cleanup command that raises on a worker
\* does not stop the cleanup: the commands of every later worker are still
\* issued.
C25_CleanupContinues ==
  [][(pc \in {"umount", "rm"} /\ idx < Workers) => pc' \in {"umount", "rm"}]_vars

\* Release i is the first of the list whose line matches the search string
\* and whose recorded values mention the deployment.
FirstReferencing(i) ==
  /\ i \in DOMAIN kube.releases
  /\ kube.releases[i].listed /\ kube.releases[i].refs
  /\ \A j \in 1..(i - 1) : ~(kube.releases[j].listed /\ kube.releases[j].refs)

\* The latest revision of a history is its greatest.
Latest(history) == CHOOSE r \in Range(history) : \A q \in Range(history) : q <= r

Rollbacks == IssuedNamed({"helm_rollback"})

\* C26 as stated: the rollback recover_deployment_helm issues names the first
\* listed release whose values reference the deployment, and the revision
\* immediately preceding the latest revision of that release's history.
C26_PrecedingRevision ==
  \A c \in Rollbacks :
    \E i \in DOMAIN kube.releases :
      /\ FirstReferencing(i)
      /\ c[4] = kube.releases[i].name
      /\ c[5] = Latest(kube.releases[i].history) - 1

\* C26 amended: the rollback recover_deployment_helm issues names the first
\* listed release whose values reference the deployment, and the latest
\* revision of that release's history; it is issued once at most, what is
\* returned names the same release and revision, and when no listed release
\* references the deployment no rollback is issued.
C26_LatestRevision ==
  /\ \A c \in Rollbacks :
       /\ issued[c] = 1
       /\ \E i \in DOMAIN kube.releases :
            /\ FirstReferencing(i)
            /\ c[4] = kube.releases[i].name
            /\ c[5] = Latest(kube.releases[i].history)
  /\ Cardinality(Rollbacks) <= 1
  /\ kube.result.kind = "rolled_back" =>
       Rollbacks = {<<"helm_rollback", "m", 1, kube.result.rel, kube.result.rev>>}
  /\ (\A i \in DOMAIN kube.releases : ~FirstReferencing(i)) => Rollbacks = {}

\* The second of two listed releases is the first that references the
\* deployment, with a history of several revisions.
C26_Witness ==
  /\ kube.result.kind = "rolled_back"
  /\ Len(kube.releases) = 2
  /\ kube.releases[1].listed /\ ~kube.releases[1].refs
  /\ FirstReferencing(2)
  /\ Len(kube.releases[2].history) = MaxRev
  /\ Rollbacks = {<<"helm_rollback", "m", 1, "rel2", MaxRev>>}

\* A recovery method has returned success.
RecoverySucceeded ==
  /\ pc = "rec_ret"
  /\ kube.result.kind \in {"recovered", "rolled_back"}
  /\ kube.result.status

\* C27 as stated: recover_deployment_helm and recover_deployment_k8s report
\* success only after the cluster status has been polled and every service is
\* started.
C27_RecoveryPolls ==
  RecoverySucceeded =>
    /\ Issued(<<"hctl_status", "m", 1>>) >= 1
    /\ get_hctl_status(cluster_status).ok

Deletes == IssuedNamed({"kubectl_delete_deploy"})

\* C28 as stated: delete_deployment issues the delete command only when the
\* backup of the deployment has been captured, and the backup path it returns
\* is the path of that backup.
C28_BackupBeforeDelete ==
  /\ Deletes # {} =>
       /\ IssuedNamed({"kubectl_backup"}) # {}
       /\ kube.backup_path = BackupPath(kube.deploy)
       /\ kube.file = kube.before
  /\ kube.result.kind = "deleted" =>
       /\ kube.result.backup_path = BackupPath(kube.result.deploy)
       /\ kube.file = kube.before

\* C29 as stated: after delete_deployment has deleted a deployment and
\* recover_deployment_k8s has been run on the backup path it returned (its
\* commands not failing for a reason of their own), the deployment is there
\* again with the storage section it had before the deletion.
C29_RoundTrip ==
  (/\ pc = "rec_ret"
   /\ IssuedNamed({"kubectl_recover"}) # {}
   /\ kube.result # Failed)
  => kube.deployment.storage = kube.before.storage

\* The statements of the IO-validation phase.
IoSteps == {"basic_io", "s3bench_setup", "s3bench"}

\* C30 as stated: in the IO-validation phase a failed step of the basic IO
\* cycle, a failure to set up the benchmark tool and a benchmark log with
\* errors each abort the run at once.
C30_IoFailuresSurface ==
  [][(pc \in IoSteps /\ resp' # resp /\ ~resp'.ok) => pc' = "aborted"]_vars

\* C31 as stated: on the control-plane node the cluster-apply script is
\* invoked only after the repository was checked out and the manifest was then
\* copied into it, once each; when the manifest cannot be copied the script is
\* not invoked.
C31_ApplyAfterCopy ==
  Issued(<<"deploy_cluster", "m", 1>>) >= 1 =>
    /\ Issued(<<"git_checkout", "m", 1>>) = 1
    /\ Issued(<<"copy_sol_file", "m", 1>>) = 1

\* The worker whose iteration of the partition loop ran last (0: none yet).
LastProcessed == IF pc = "usy_loop" THEN idx - 1 ELSE idx

\* floor((n - g - 1) / g) from worker w's own device list.
OwnGroupSize(w) == Max0(conf.workers[w] - conf.cvg_count - 1) \div conf.cvg_count

\* The data-device groups of worker w by the claimed rule: g groups of
\* OwnGroupSize(w) devices each, taken in order after the metadata devices.
OwnGroups(w) ==
  [i \in 1..conf.cvg_count |->
     [k \in 1..OwnGroupSize(w) |->
        <<w, conf.cvg_count + (i - 1) * OwnGroupSize(w) + k>>]]

\* C32 as stated: with d = 0 the per-group size used for a worker is
\* floor((its device count - g - 1) / g), and the groups computed for it are
\* those of its own device list alone, whatever workers were processed before.
C32_NoSharedState ==
  (conf.data_disk_per_cvg = 0 /\ pc \in {"usy_loop", "usy_password", "usy_ret"}
     /\ LastProcessed >= 1) =>
    /\ data_disk_per_cvg = OwnGroupSize(LastProcessed)
    /\ (pc # "usy_ret" /\ OwnGroupSize(LastProcessed) >= 1) =>
         \A i \in 1..conf.cvg_count :
           /\ i \in DOMAIN data_devices
           /\ data_devices[i] = OwnGroups(LastProcessed)[i]

\* The workers whose devices are among those handed to update_cvg_sol_file.
HandedWorkers ==
  {dev[1] : dev \in Range(metadata_devices)}
    \cup UNION {{dev[1] : dev \in Range(data_devices[i])} : i \in DOMAIN data_devices}

\* The workers whose devices the storage section lists.
StorageWorkers ==
  {manifest.storage[cvg].metadata[1] : cvg \in DOMAIN manifest.storage}
    \cup {dev[1] : dev \in AllAssignedData}

\* C33 as stated: after a successful update_sol_yaml over several workers the
\* metadata devices and the data-device groups handed to update_cvg_sol_file,
\* and those written to the storage section, are of one and the same worker,
\* and exactly g data-device groups were produced.
C33_OneWorkerSlices ==
  (Accepted /\ Len(conf.workers) >= 2) =>
    /\ Cardinality(HandedWorkers) = 1
    /\ Cardinality(StorageWorkers) = 1
    /\ Len(data_devices) = conf.cvg_count

\* ---------------------------------------------------------------- C34
\* C34: when update_cvg_sol_file has written the storage section, the
\* section holds the groups cvg1 .. cvg{cvg_count} and no group of the
\* template; group i is named cvg-0i and has the given type, its metadata
\* device is the i-th of metadata_devices, its data devices d1 .. d{d} are
\* the first d devices of the i-th slice of data_devices in order, and
\* every device carries the size given for its kind.
C34_CvgSection ==
  [][(pc = "usy_cvg" /\ pc' = Succ("usy_cvg")) =>
       /\ DOMAIN manifest'.storage = 1..conf.cvg_count
       /\ \A i \in 1..conf.cvg_count :
            LET group == manifest'.storage[i]
            IN  /\ group.name = "cvg-0" \o ToString(i)
                /\ group.type = "ios"
                /\ group.metadata = metadata_devices[i]
                /\ group.size_metadata = "20Gi"
                /\ DOMAIN group.data = 1..data_disk_per_cvg
                /\ DOMAIN group.size_data = 1..data_disk_per_cvg
                /\ \A k \in 1..data_disk_per_cvg :
                     /\ group.data[k] = data_devices[i][k]
                     /\ group.size_data[k] = "20Gi"]_vars

\* The section was written with fewer groups than the template has, each
\* with data devices.
C34_Witness ==
  /\ pc = Succ("usy_cvg")
  /\ conf.cvg_count < Len(Template.storage)
  /\ Len(manifest.storage) = conf.cvg_count
  /\ data_disk_per_cvg >= 1
  /\ Len(manifest.storage[1].data) = data_disk_per_cvg

\* ---------------------------------------------------------------- C35
\* The parts of the manifest: secrets, common, images, storage, nodes.
Common(doc) == <<doc.storage_provisioner_path, doc.max_start_timeout,
                 doc.glusterfs_size, doc.sns, doc.dix>>

Secrets(doc) == <<doc.passwords, doc.secrets>>

\* C35: each edit pass changes only its own part of the manifest. The
\* node-list pass leaves storage, images, secrets and common as they were;
\* the image pass leaves nodes, storage, secrets and common; the
\* volume-group pass leaves nodes, images, secrets and every field of
\* common but the glusterfs size and the durability; the password pass
\* leaves nodes, storage and images, and every secret entry it does not
\* set keeps its value.
C35_Frame ==
  [][/\ (pc = "usy_nodes" /\ pc' = Succ("usy_nodes")) =>
          /\ manifest'.storage = manifest.storage
          /\ manifest'.images = manifest.images
          /\ Secrets(manifest') = Secrets(manifest)
          /\ Common(manifest') = Common(manifest)
     /\ (pc = "usy_image" /\ pc' = Succ("usy_image")) =>
          /\ manifest'.nodes = manifest.nodes
          /\ manifest'.storage = manifest.storage
          /\ Secrets(manifest') = Secrets(manifest)
          /\ Common(manifest') = Common(manifest)
     /\ (pc = "usy_cvg" /\ pc' = Succ("usy_cvg")) =>
          /\ manifest'.nodes = manifest.nodes
          /\ manifest'.images = manifest.images
          /\ Secrets(manifest') = Secrets(manifest)
          /\ manifest'.storage_provisioner_path = manifest.storage_provisioner_path
          /\ manifest'.max_start_timeout = manifest.max_start_timeout
     /\ (pc = "usy_password" /\ pc' = Succ("usy_password")) =>
          /\ manifest'.nodes = manifest.nodes
          /\ manifest'.storage = manifest.storage
          /\ manifest'.images = manifest.images
          /\ \A k \in DOMAIN manifest.secrets \ DOMAIN passwd_dict :
               /\ k \in DOMAIN manifest'.secrets
               /\ manifest'.secrets[k] = manifest.secrets[k]
     /\ manifest'.keys = manifest.keys]_vars

\* All four passes have run: every part differs from the template and the
\* secret the password pass does not set is still there.
C35_Witness ==
  /\ Accepted
  /\ manifest.nodes # Template.nodes
  /\ manifest.storage # Template.storage
  /\ manifest.images # Template.images
  /\ manifest.secrets["kafka_admin_secret"] = "decrypted"
  /\ manifest.secrets["consul_admin_secret"] = "template"

\* ---------------------------------------------------------------- C36
\* The lines of the status output that hold the text FAILED.
FailedLines == {"Pod status: FAILED\n", "FAILED\n", "FAILED"}

\* C36: validate_cluster_status returns False with the output whenever a
\* line of the status output contains FAILED and True with the output
\* otherwise; deploy_cortx_cluster returns that result, and a run whose
\* status output reports FAILED stops there and never looks up the data pod
\* for convergence polling.
C36_FailedStops ==
  [][/\ (pc = "validate" /\ pc' = "dcc_ret") =>
       /\ resp'.msg \in StatusOutputs
       /\ resp'.ok <=> Range(read_lines(resp'.msg)) \cap FailedLines = {}
     /\ (/\ pc = "dcc_ret"
         /\ resp.msg \in StatusOutputs
         /\ Range(read_lines(resp.msg)) \cap FailedLines # {}) => pc' = "aborted"]_vars

\* ---------------------------------------------------------------- C37
\* C37: when get_pod_name finds no pod with the data-pod prefix after the
\* cluster was applied, test_deployment fails there and issues no status
\* query; a status query is only ever issued on the name of a pod that
\* was found.
C37_QueryFoundPod ==
  /\ (pc \in Range(ProgramOrder) /\ Pos(pc) > Pos("pod_name") /\ Pos(pc) <= Pos("poll_assert"))
       => pod_name \in PodNames
  /\ (flags.deploy /\ Issued(<<"hctl_status", "m", 1>>) >= 1) => pod_name \in PodNames

\* ---------------------------------------------------------------- C38
\* The sync commands issued so far.
Syncs == {c \in DOMAIN issued : c[1] = "kubectl" /\ c[4] = "exec"}

\* C38: send_sync_command(pod_prefix), which calls get_all_pods_containers
\* without a pod list, returns True after issuing the sync command exactly
\* once to every container of every listed pod whose name holds pod_prefix,
\* and to no other.
C38_SyncEveryContainer ==
  (kube.entry = "sync" /\ pc # "sync") =>
    /\ pc = "sync_ret"
    /\ resp.ok
    /\ \A i \in DOMAIN kube.listing, c \in 1..MaxContainers :
         Issued(<<"kubectl", "m", 1, "exec", kube.listing[i], c>>) =
           IF Contains(kube.listing[i], kube.pod_prefix) /\ c <= kube.containers[kube.listing[i]]
           THEN 1 ELSE 0
    /\ \A c \in Syncs : c[5] \in Range(kube.listing)

\* ---------------------------------------------------------------- C39
\* C39: send_k8s_cmd raises ValueError and executes no remote command when
\* the operation is none of create, apply, config, get, explain, autoscale,
\* patch, scale, exec; for one of these it executes exactly one remote
\* command.
C39_AllowedOperations ==
  [][pc = "k8s_cmd" =>
       IF kube.operation \in {"create", "apply", "config", "get", "explain",
                              "autoscale", "patch", "scale", "exec"}
       THEN /\ pc' = "k8s_ret"
            /\ \E c \in DOMAIN issued' \ DOMAIN issued : issued' = issued @@ (c :> 1)
       ELSE /\ pc' = "aborted"
            /\ abort_msg' = "ValueError"
            /\ issued' = issued]_vars

\* An operation that is not allowed was refused.
C39_Witness ==
  /\ pc = "aborted"
  /\ abort_msg = "ValueError"
  /\ kube.entry = "k8s_cmd"
  /\ kube.operation = "delete"
  /\ issued = <<>>

====
